---- MODULE Spec2Model ----
(***************************************************************************)
(* Model of the multi-platform module-resolution pipeline of               *)
(* packages/@expo/cli/src/start/server/metro/withMetroMultiPlatform.ts.    *)
(*                                                                         *)
(* Strings are sequences of chunks.  A specifier or a path is split at     *)
(* '/', '.' and ':' and the separators are kept as chunks of their own, so *)
(* "react/jsx-dev-runtime" is <<"react", "/", "jsx-dev-runtime">>.  The    *)
(* fixed parts of a template literal are one chunk each and the            *)
(* interpolated values are spliced in between, so string concatenation is  *)
(* \o and string equality is equality of sequences.                        *)
(***************************************************************************)
EXTENDS Integers, Sequences, FiniteSets, TLC

\* ------------------------------------------------------------------------
\* Bounds
\* ------------------------------------------------------------------------
\* Resolve calls of one bundle (Spec) and of a sequence of bundles (SpecSeq).
MaxCalls == 1

MaxSeqCalls == 2

\* Resolve calls of a development server whose alias cache fills (SpecAlias).
MaxAliasCalls == 2

\* Resolve calls and change notifications of a development server that
\* watches tsconfig.json (SpecTs).
MaxTsCalls == 2

MaxChanges == 2

\* Resolve calls that reach the post-resolution rewrites (SpecPost).
MaxPostCalls == 2

\* Calls of the serializer's module-id factory and getPolyfills (SpecSerializer).
MaxSerializerCalls == 2

\* Resolve calls under a rule table that may be misconfigured (SpecRules).
MaxRuleCalls == 2

\* Resolve calls of weak externals (SpecWeak).
MaxWeakCalls == 3

\* Calls of LogBox.install, LogBox.uninstall and console.error, and
\* decorations of console.error by other code (SpecLogBox).
MaxLogBoxCalls == 5
MaxShimCalls == 2

\* Calls of the Context Mutator (SpecContext).
MaxContextCalls == 2

\* ------------------------------------------------------------------------
\* String helpers
\* ------------------------------------------------------------------------
NUL == "\\0"

startsWith(s, p) ==
  /\ Len(s) >= Len(p)
  /\ SubSeq(s, 1, Len(p)) = p

endsWith(s, p) ==
  /\ Len(s) >= Len(p)
  /\ SubSeq(s, Len(s) - Len(p) + 1, Len(s)) = p

includes(s, p) ==
  \E i \in 1..(Len(s) - Len(p) + 1) : SubSeq(s, i, i + Len(p) - 1) = p

\* /^p(\/.*)?$/
MatchOptSubpathStar(s, p) ==
  \/ s = p
  \/ startsWith(s, p \o <<"/">>)

\* /^p(\/.+)?$/
MatchOptSubpathPlus(s, p) ==
  \/ s = p
  \/ /\ startsWith(s, p \o <<"/">>)
     /\ Len(s) >= Len(p) + 2

\* /^p\/.+$/
MatchSubpathPlus(s, p) ==
  /\ startsWith(s, p \o <<"/">>)
  /\ Len(s) >= Len(p) + 2

\* s.replace(/^native:/, '')
StripNativePrefix(s) ==
  IF startsWith(s, <<"native", ":">>) THEN SubSeq(s, 3, Len(s)) ELSE s

\* ------------------------------------------------------------------------
\* The regular-expression allow-lists of the external rules
\* ------------------------------------------------------------------------
\* withMetroMultiPlatform.ts:634, the alternatives without a wildcard
NodeExternalsReactServer ==
  {
    <<"debug">>, <<"metro-runtime", "/", "src", "/", "modules", "/", "HMRClient">>,
    <<"metro">>, <<"acorn-loose">>, <<"acorn">>, <<"chalk">>, <<"ws">>, <<"ansi-styles">>,
    <<"supports-color">>, <<"color-convert">>, <<"has-flag">>, <<"utf-8-validate">>,
    <<"color-name">>, <<"react-refresh", "/", "runtime">>
  }

\* withMetroMultiPlatform.ts:646, the alternatives without a wildcard
NodeExternalsNode ==
  {
    <<"react">>, <<"debug">>, <<"acorn-loose">>, <<"acorn">>, <<"hyphenate-style-name">>,
    <<"color">>, <<"color-string">>, <<"color-convert">>, <<"color-name">>,
    <<"fontfaceobserver">>, <<"fast-deep-equal">>, <<"query-string">>,
    <<"escape-string-regexp">>, <<"invariant">>, <<"postcss-value-parser">>, <<"memoize-one">>,
    <<"nullthrows">>, <<"strict-uri-encode">>, <<"decode-uri-component">>,
    <<"split-on-first">>, <<"filter-obj">>, <<"warn-once">>, <<"simple-swizzle">>,
    <<"is-arrayish">>
  }

\* withMetroMultiPlatform.ts:667, the alternatives after the optional native: prefix
BuiltinAllowList ==
  {
    <<"react-native-is-edge-to-edge">>, <<"@react-navigation", "/", "bottom-tabs">>,
    <<"stacktrace-parser">>, <<"@radix-ui", "/", "react-slot">>,
    <<"@react-navigation", "/", "native-stack">>, <<"@react-navigation", "/", "elements">>,
    <<"@react-navigation", "/", "core">>, <<"@react-navigation", "/", "native">>,
    <<"query-string">>, <<"react-is">>, <<"use-sync-external-store", "/", "with-selector">>,
    <<"use-latest-callback">>, <<"@react-navigation", "/", "routers">>,
    <<"nanoid", "/", "non-secure">>, <<"@radix-ui", "/", "react-compose-refs">>,
    <<"@react-native-masked-view", "/", "masked-view">>, <<"color">>, <<"color-convert">>,
    <<"color-string">>, <<"expo", "/", "src", "/", "winter">>, <<"expo", "/", "dom">>,
    <<"expo", "/", "dom", "/", "global">>, <<"warn-once">>, <<"escape-string-regexp">>,
    <<"metro-runtime", "/", "src", "/", "modules", "/", "HMRClient">>,
    <<"react-native-webview">>, <<"react-native-screens">>,
    <<"react-native-safe-area-context">>, <<"react-native-reanimated">>,
    <<"react-native-gesture-handler">>, <<"expo-web-browser">>, <<"expo-system-ui">>,
    <<"expo-symbols">>, <<"expo-splash-screen">>, <<"expo-linking">>, <<"expo-image">>,
    <<"expo">>, <<"expo-blur">>, <<"expo-font">>, <<"expo-haptics">>, <<"expo-asset">>,
    <<"expo-constants">>, <<"expo-keep-awake">>, <<"expo-status-bar">>,
    <<"expo-modules-core">>, <<"expo-modules-core", "/", "src", "/", "LegacyEventEmitter">>,
    <<"react">>, <<"url">>, <<"whatwg-fetch">>, <<"react-devtools-core">>,
    <<"whatwg-url-without-unicode">>, <<"buffer">>, <<"punycode">>, <<"base64-js">>,
    <<"ieee754">>, <<"pretty-format">>, <<"event-target-shim">>, <<"invariant">>,
    <<"regenerator-runtime", "/", "runtime">>, <<"react-refresh", "/", "runtime">>,
    <<"react-native", "/", "Libraries", "/", "ReactNative", "/", "RendererProxy">>,
    <<"react", "/", "jsx-runtime">>, <<"react", "/", "jsx-dev-runtime">>,
    <<"@react-native", "/", "normalize-colors">>, <<"anser">>,
    <<"react-native", "/", "src", "/", "private", "/", "setup", "/", "setUpDOM">>,
    <<"scheduler">>
  }

\* withMetroMultiPlatform.ts:706, the alternatives after the optional native: prefix
BuiltinReactNativeList ==
  {
    <<"react-native">>, <<"react-native", "/", "index">>,
    <<"react-native", "/", "Libraries", "/", "Utilities", "/", "HMRClient">>,
    <<"react-native", "/", "Libraries", "/", "Core", "/", "Devtools", "/", "getDevServer">>,
    <<"react-native", "/", "Libraries", "/", "WebSocket", "/", "WebSocket">>,
    <<"react-native", "/", "Libraries", "/", "NativeModules", "/", "specs", "/", "NativeLogBox">>,
    <<"react-native", "/", "Libraries", "/", "Core", "/", "ExceptionsManager">>,
    <<"react-native", "/", "Libraries", "/", "Network", "/", "RCTNetworking">>,
    <<"react-native", "/", "Libraries", "/", "Core", "/", "Devtools", "/", "symbolicateStackTrace">>,
    <<"react-native", "/", "Libraries", "/", "Components", "/", "View", "/", "ReactNativeStyleAttributes">>,
    <<"react-native", "/", "Libraries", "/", "Core", "/", "InitializeCore">>,
    <<"react-native", "/", "src", "/", "private", "/", "featureflags", "/", "ReactNativeFeatureFlags">>,
    <<"react-native", "/", "Libraries", "/", "NativeComponent", "/", "NativeComponentRegistry">>,
    <<"react-native", "/", "Libraries", "/", "Utilities", "/", "PolyfillFunctions">>,
    <<"react-native", "/", "Libraries", "/", "ReactPrivate", "/", "ReactNativePrivateInterface">>,
    <<"react-native", "/", "Libraries", "/", "Image", "/", "resolveAssetSource">>,
    <<"react-native", "/", "Libraries", "/", "StyleSheet", "/", "processColor">>,
    <<"react-native", "/", "Libraries", "/", "NativeComponent", "/", "ViewConfigIgnore">>,
    <<"react-native", "/", "Libraries", "/", "StyleSheet", "/", "processColorArray">>,
    <<"react-native", "/", "Libraries", "/", "NativeModules", "/", "specs", "/", "NativeSourceCode">>,
    <<"react-native", "/", "Libraries", "/", "Image", "/", "AssetSourceResolver">>,
    <<"react-native", "/", "Libraries", "/", "ReactPrivate", "/", "ReactNativePrivateInitializeCore">>
  }

\* withMetroMultiPlatform.ts:748, the alternatives without a wildcard
WeakExternals ==
  {
    <<"deprecated-react-native-prop-types">>, <<"react">>, <<"react", "/", "jsx-dev-runtime">>,
    <<"scheduler">>, <<"react-native">>
  }

\* ------------------------------------------------------------------------
\* State
\* ------------------------------------------------------------------------
VARIABLES
  EXPO_BUNDLE_BUILT_IN,   \* env.EXPO_BUNDLE_BUILT_IN
  win32,                  \* process.platform === 'win32'
  isReactCanaryEnabled,   \* option of withExtendedResolver
  isReactServerComponentsEnabled,  \* option of withExtendedResolver
  numericIds,             \* config.serializer.createModuleIdFactory is set
  tsConfigResolve,        \* the active path mapping, NoTsConfig when null
  isTsconfigPathsEnabled, \* option of withExtendedResolver
  tsconfig,               \* option of withExtendedResolver: the tsconfig read at startup
  interactive,            \* !isExporting && isInteractive()
  reloads,                \* the tsconfig loads in flight after change notifications
  changes,                \* number of change notifications so far
  loaded,                 \* the tsconfig the last completed reload delivered
  tsconfigFile,           \* the tsconfig.json on disk now, as the last change left it
  universalAliases,       \* _universalAliases: the cached list, unset when null
  virtualModules,         \* the Virtual Module Registry: id -> contents
  fileToIdMap,            \* the ids handed out by the module-id factory
  options,                \* platform, dev and customResolverOptions of the bundle being built
  calls,                  \* number of resolve calls made so far
  last,                   \* the last resolve call: its inputs and what it did
  packageJson,            \* the package.json of the package foo on disk
  moduleIds,              \* the cache of the memoized getModulePath
  lastId,                 \* the last call of the module-id factory and its result
  lastPolyfills,          \* the last call of getPolyfills and its result
  serializerCalls,        \* number of serializer calls made so far
  externalRules,          \* the rules of the externals table, in order
  EXPO_METRO_NO_MAIN_FIELD_OVERRIDE,  \* env.EXPO_METRO_NO_MAIN_FIELD_OVERRIDE
  sourceExts,             \* config.resolver.sourceExts, handed to every resolve call
  nodejsSourceExtensions, \* the cached extension order for servers, unset when null
  lastMutated,            \* the last call of the Context Mutator and its result
  logBox,                 \* the module state of LogBox and the value of console.error
  logBoxCalls             \* the calls made so far on LogBox and console.error, in order

vars ==
  <<EXPO_BUNDLE_BUILT_IN, win32, isReactCanaryEnabled, isReactServerComponentsEnabled,
    numericIds, tsConfigResolve, isTsconfigPathsEnabled, tsconfig, interactive, reloads,
    changes, loaded, tsconfigFile, universalAliases,
    virtualModules, fileToIdMap, options, calls, last,
    packageJson, moduleIds, lastId, lastPolyfills, serializerCalls,
    externalRules, EXPO_METRO_NO_MAIN_FIELD_OVERRIDE, sourceExts, nodejsSourceExtensions,
    lastMutated, logBox, logBoxCalls>>

\* The error overlay of the web runtime.
overlay == <<logBox, logBoxCalls>>

\* Everything but the overlay.
bundler ==
  <<EXPO_BUNDLE_BUILT_IN, win32, isReactCanaryEnabled, isReactServerComponentsEnabled,
    numericIds, tsConfigResolve, isTsconfigPathsEnabled, tsconfig, interactive, reloads,
    changes, loaded, tsconfigFile, universalAliases,
    virtualModules, fileToIdMap, options, calls, last,
    packageJson, moduleIds, lastId, lastPolyfills, serializerCalls,
    externalRules, EXPO_METRO_NO_MAIN_FIELD_OVERRIDE, sourceExts, nodejsSourceExtensions,
    lastMutated>>

\* What is fixed when the process starts.
installation == <<externalRules, EXPO_METRO_NO_MAIN_FIELD_OVERRIDE, sourceExts>>

\* The state of the serializer hooks, which no resolve call touches.
serializer == <<packageJson, moduleIds, lastId, lastPolyfills, serializerCalls>>

\* ------------------------------------------------------------------------
\* Values
\* ------------------------------------------------------------------------
NoPath == <<>>

NoResolution == [type |-> "none", filePath |-> NoPath]

EmptyResolution == [type |-> "empty", filePath |-> NoPath]

SourceFile(filePath) == [type |-> "sourceFile", filePath |-> filePath]

NoError == [class |-> "none", about |-> NoPath]

\* What one strategy (or one internal resolve) did: it returned null, it
\* returned a Resolution or it threw; the virtual modules it registered, in
\* order; the specifiers it handed to the base resolver, in order; and the
\* real paths it asked the module-id factory about.
ReturnNull(regs, base) ==
  [tag |-> "null", res |-> NoResolution, err |-> NoError, regs |-> regs, base |-> base,
   ids |-> <<>>]

Return(res, regs, base) ==
  [tag |-> "return", res |-> res, err |-> NoError, regs |-> regs, base |-> base,
   ids |-> <<>>]

Throw(err, regs, base) ==
  [tag |-> "throw", res |-> NoResolution, err |-> err, regs |-> regs, base |-> base,
   ids |-> <<>>]

\* ------------------------------------------------------------------------
\* Collaborators outside this file
\* ------------------------------------------------------------------------
isServerEnvironment(environment) == environment \in {"node", "react-server"}

NODE_STDLIB_MODULES ==
  { <<"fs">>, <<"fs", "/", "promises">>, <<"path">>, <<"url">>, <<"buffer">>, <<"punycode">>,
    <<"crypto">> }

\* Returns the module id without its node: prefix, or the empty string.
isNodeExternal(moduleName) ==
  LET moduleId ==
        IF startsWith(moduleName, <<"node", ":">>)
        THEN SubSeq(moduleName, 3, Len(moduleName))
        ELSE moduleName
  IN  IF moduleId \in NODE_STDLIB_MODULES THEN moduleId ELSE NoPath

isFailedToResolveNameError(error) == error.class = "FailedToResolveNameError"

\* Recognises a could-not-resolve-path failure. The policy violation for a
\* native-only module is raised with the same class and is not one.
isFailedToResolvePathError(error) ==
  /\ error.class = "FailedToResolvePathError"
  /\ ~startsWith(error.about, <<"Importing native-only module \"">>)

\* bundler.setVirtualModule(id, contents): a Map.set on the registry.
setVirtualModule(registry, id, contents) ==
  [v \in (DOMAIN registry) \cup {id} |-> IF v = id THEN contents ELSE registry[v]]

hasVirtualModule(registry, id) == id \in DOMAIN registry

\* Applies the registrations of one call in order.
RECURSIVE setVirtualModules(_, _)
setVirtualModules(registry, regs) ==
  IF regs = <<>> THEN registry
  ELSE setVirtualModules(setVirtualModule(registry, Head(regs).id, Head(regs).contents),
                         Tail(regs))

\* ------------------------------------------------------------------------
\* The base resolver (metro-resolver or the fast resolver) over a fixed disk
\* ------------------------------------------------------------------------
Disk ==
     <<"react">> :> <<"/", "app", "/", "node_modules", "/", "react", "/", "index", ".", "js">>
  @@ <<"react-dom">> :>
       <<"/", "app", "/", "node_modules", "/", "react-dom", "/", "index", ".", "js">>
  @@ <<"react-dom", "/", "index">> :>
       <<"/", "app", "/", "node_modules", "/", "react-dom", "/", "index", ".", "js">>
  @@ <<"react-dom", "/", "package", ".", "json">> :>
       <<"/", "app", "/", "node_modules", "/", "react-dom", "/", "package", ".", "json">>
  @@ <<"react-native">> :>
       <<"/", "app", "/", "node_modules", "/", "react-native", "/", "index", ".", "js">>
  @@ <<"react-native-web">> :>
       <<"/", "app", "/", "node_modules", "/", "react-native-web", "/", "dist", "/", "index",
         ".", "js">>
  @@ <<"buffer">> :> <<"/", "app", "/", "node_modules", "/", "buffer", "/", "index", ".", "js">>
  @@ <<"debug">> :>
       <<"/", "app", "/", "node_modules", "/", "debug", "/", "src", "/", "index", ".", "js">>
  @@ <<"@expo", "/", "vector-icons", "/", "Ionicons">> :>
       <<"/", "app", "/", "node_modules", "/", "@expo", "/", "vector-icons", "/", "Ionicons",
         ".", "js">>
  @@ <<".", ".", "/", ".", ".", "/", "src", "/", "private", "/", "setup", "/", "setUpDOM">> :>
       <<"/", "app", "/", "node_modules", "/", "react-native", "/", "src", "/", "private", "/",
         "setup", "/", "setUpDOM", ".", "js">>
  @@ <<".", "/", "cjs", "/", "react", ".", "production", ".", "min", ".", "js">> :>
       <<"/", "app", "/", "node_modules", "/", "react", "/", "cjs", "/", "react", ".",
         "production", ".", "min", ".", "js">>
  @@ <<"@react-native", "/", "assets-registry", "/", "registry">> :>
       <<"/", "app", "/", "node_modules", "/", "@react-native", "/", "assets-registry", "/",
         "registry", ".", "js">>
  @@ <<"expo-modules-core">> :>
       <<"/", "app", "/", "node_modules", "/", "expo-modules-core", "/", "src", "/", "index",
         ".", "ts">>
  @@ <<"/", "app", "/", "src", "/", "utils">> :>
       <<"/", "app", "/", "src", "/", "utils", ".", "js">>
  @@ <<"react-native-web", "/", "dist", "/", "exports", "/", "AppRegistry", "/",
       "AppContainer">> :>
       <<"/", "app", "/", "node_modules", "/", "react-native-web", "/", "dist", "/", "exports",
         "/", "AppRegistry", "/", "AppContainer", ".", "js">>
  @@ <<"/", "app", "/", "shims", "/", "fs">> :>
       <<"/", "app", "/", "shims", "/", "fs", ".", "js">>
  @@ <<"/", "app", "/", "node_modules", "/", "react-native-web", "/", "dist", "/", "exports",
       "/", "AppRegistry", "/", "AppContainer">> :>
       <<"/", "app", "/", "node_modules", "/", "react-native-web", "/", "dist", "/", "exports",
         "/", "AppRegistry", "/", "AppContainer", ".", "js">>
  @@ <<"@expo", "/", "vector-icons">> :>
       <<"/", "app", "/", "node_modules", "/", "@expo", "/", "vector-icons", "/", "index",
         ".", "js">>
  @@ <<"expo-router", "/", "rsc">> :>
       <<"/", "app", "/", "node_modules", "/", "expo-router", "/", "rsc", ".", "js">>
  @@ <<"expo-asset", "/", "build", "/", "resolveAssetSource">> :>
       <<"/", "app", "/", "node_modules", "/", "expo-asset", "/", "build", "/",
         "resolveAssetSource", ".", "js">>
  @@ <<"react-native", "/", "Libraries", "/", "Utilities", "/", "codegenNativeCommands">> :>
       <<"/", "app", "/", "node_modules", "/", "react-native", "/", "Libraries", "/",
         "Utilities", "/", "codegenNativeCommands", ".", "js">>
  @@ <<"react-native", "/", "Libraries", "/", "Core", "/", "InitializeCore">> :>
       <<"/", "app", "/", "node_modules", "/", "react-native", "/", "Libraries", "/",
         "Core", "/", "InitializeCore", ".", "js">>
  @@ <<"react-native", "/", "Libraries", "/", "Renderer", "/", "shims", "/", "ReactNative">> :>
       <<"/", "app", "/", "node_modules", "/", "react-native", "/", "Libraries", "/",
         "Renderer", "/", "shims", "/", "ReactNative", ".", "js">>

\* resolver(context, moduleName, platform): a file, a resolution-class error,
\* or (when the disk fails) an error of another class. Handed a context that
\* still carries resolveRequest, the base resolver gives the request back to
\* that function, which gives it to the base resolver again with the same
\* context: the call stack runs out.
resolver(context, moduleName, platform) ==
  IF context.resolveRequest
  THEN Throw([class |-> "RangeError", about |-> moduleName], <<>>, <<moduleName>>)
  ELSE IF context.fileSystem = "EIO"
  THEN Throw([class |-> "Error", about |-> moduleName], <<>>, <<moduleName>>)
  ELSE IF moduleName \in DOMAIN Disk
  THEN Return(SourceFile(Disk[moduleName]), <<>>, <<moduleName>>)
  ELSE IF Head(moduleName) \in {".", "/"}
  THEN Throw([class |-> "FailedToResolvePathError", about |-> moduleName], <<>>, <<moduleName>>)
  ELSE Throw([class |-> "FailedToResolveNameError", about |-> moduleName], <<>>, <<moduleName>>)

\* getStrictResolver that hands the whole context to the base resolver.
getStrictResolverWithResolveRequest(context, platform, moduleName) ==
  resolver(context, moduleName, platform)

\* getStrictResolver(context, platform)(moduleName): the context it hands on
\* is `{ resolveRequest, ...context }` without resolveRequest.
getStrictResolver(context, platform, moduleName) ==
  resolver([context EXCEPT !.resolveRequest = FALSE], moduleName, platform)

\* getOptionalResolver with a catch that swallows every error.
getOptionalResolverCatchAll(context, platform, moduleName) ==
  LET r == getStrictResolver(context, platform, moduleName)
  IN  IF r.tag # "throw" THEN r ELSE ReturnNull(r.regs, r.base)

getOptionalResolver(context, platform, moduleName) ==
  LET r == getStrictResolver(context, platform, moduleName)
      isResolutionError == isFailedToResolveNameError(r.err) \/ isFailedToResolvePathError(r.err)
  IN  IF r.tag # "throw" THEN r
      ELSE IF ~isResolutionError THEN r
      ELSE ReturnNull(r.regs, r.base)

\* ------------------------------------------------------------------------
\* The module-id factory used for weak references
\* ------------------------------------------------------------------------
\* An opaque id is a number or a string; text is how a template literal
\* prints it.
NumberId(n) == [isNumber |-> TRUE, text |-> <<ToString(n)>>]

StringId(s) == [isNumber |-> FALSE, text |-> s]

\* A factory that hands out the next number for every call.
idFactoryFresh(idMap, id) ==
  IF numericIds
  THEN NumberId(Cardinality(DOMAIN idMap))
  ELSE StringId(id)

\* config.serializer.createModuleIdFactory() when set (numbers handed out in
\* first-seen order), else the identity.
idFactory(idMap, id) ==
  IF numericIds
  THEN IF id \in DOMAIN idMap THEN NumberId(idMap[id]) ELSE NumberId(Cardinality(DOMAIN idMap))
  ELSE StringId(id)

\* The id map after the factory was asked about each of the paths.
RECURSIVE rememberIds(_, _)
rememberIds(idMap, paths) ==
  IF paths = <<>> \/ ~numericIds THEN idMap
  ELSE LET p == Head(paths)
           next == IF p \in DOMAIN idMap THEN idMap
                   ELSE [q \in (DOMAIN idMap) \cup {p} |->
                           IF q = p THEN Cardinality(DOMAIN idMap) ELSE idMap[q]]
       IN  rememberIds(next, Tail(paths))

\* JSON.stringify of a string without characters that need escaping.
JSONstringify(s) == <<"\"">> \o s \o <<"\"">>

\* ------------------------------------------------------------------------
\* External Classification Table
\* ------------------------------------------------------------------------
\* A match result: false, true, or {name, match: true}.
MatchBoolean(b) == [match |-> b, isObject |-> FALSE, name |-> NoPath]

MatchObject(name) == [match |-> TRUE, isObject |-> TRUE, name |-> name]

\* externals[0].match without the check of exporting.
matchNodeWhenExporting(context, moduleName) ==
  IF ~isServerEnvironment(context.customResolverOptions.environment)
  THEN MatchBoolean(FALSE)
  ELSE IF context.customResolverOptions.environment = "react-server"
  THEN MatchBoolean(
         \/ MatchOptSubpathStar(moduleName, <<"source-map-support">>)
         \/ MatchSubpathPlus(moduleName, <<"@babel", "/", "runtime">>)
         \/ MatchSubpathPlus(moduleName, <<"@remix-run", "/", "node">>)
         \/ moduleName \in NodeExternalsReactServer)
  ELSE IF win32
  THEN MatchBoolean(MatchOptSubpathStar(moduleName, <<"source-map-support">>))
  ELSE MatchBoolean(
         \/ MatchOptSubpathStar(moduleName, <<"source-map-support">>)
         \/ MatchSubpathPlus(moduleName, <<"@radix-ui">>)
         \/ MatchSubpathPlus(moduleName, <<"@babel", "/", "runtime">>)
         \/ MatchOptSubpathPlus(moduleName, <<"react-dom">>)
         \/ MatchSubpathPlus(moduleName, <<"css-in-js-utils", "/", "lib">>)
         \/ MatchSubpathPlus(moduleName, <<"inline-style-prefixer">>)
         \/ moduleName \in NodeExternalsNode)

\* externals[0].match
matchNode(context, moduleName) ==
  IF \/ context.customResolverOptions.exporting
     \/ ~isServerEnvironment(context.customResolverOptions.environment)
  THEN MatchBoolean(FALSE)
  ELSE IF context.customResolverOptions.environment = "react-server"
  THEN MatchBoolean(
         \/ MatchOptSubpathStar(moduleName, <<"source-map-support">>)
         \/ MatchSubpathPlus(moduleName, <<"@babel", "/", "runtime">>)
         \/ MatchSubpathPlus(moduleName, <<"@remix-run", "/", "node">>)
         \/ moduleName \in NodeExternalsReactServer)
  ELSE IF win32
  THEN MatchBoolean(MatchOptSubpathStar(moduleName, <<"source-map-support">>))
  ELSE MatchBoolean(
         \/ MatchOptSubpathStar(moduleName, <<"source-map-support">>)
         \/ MatchSubpathPlus(moduleName, <<"@radix-ui">>)
         \/ MatchSubpathPlus(moduleName, <<"@babel", "/", "runtime">>)
         \/ MatchOptSubpathPlus(moduleName, <<"react-dom">>)
         \/ MatchSubpathPlus(moduleName, <<"css-in-js-utils", "/", "lib">>)
         \/ MatchSubpathPlus(moduleName, <<"inline-style-prefixer">>)
         \/ moduleName \in NodeExternalsNode)

\* externals[1].match without the check of EXPO_BUNDLE_BUILT_IN.
matchBuiltinInBuiltInMode(context, moduleName) ==
  IF \/ context.customResolverOptions.exporting
     \/ isServerEnvironment(context.customResolverOptions.environment)
  THEN MatchBoolean(FALSE)
  ELSE IF StripNativePrefix(moduleName) \in BuiltinAllowList
  THEN MatchBoolean(TRUE)
  ELSE IF /\ endsWith(context.originModulePath, <<"InitializeCore", ".", "js">>)
          /\ startsWith(moduleName, <<".", ".", "/", ".", ".", "/", "src", "/", "private", "/", "setup", "/", "setUpDOM">>)
  THEN MatchObject(<<"react-native", "/", "src", "/", "private", "/", "setup", "/", "setUpDOM">>)
  ELSE MatchBoolean(StripNativePrefix(moduleName) \in BuiltinReactNativeList)

\* externals[1].match
matchBuiltin(context, moduleName) ==
  IF \/ context.customResolverOptions.exporting
     \/ isServerEnvironment(context.customResolverOptions.environment)
  THEN MatchBoolean(FALSE)
  ELSE IF EXPO_BUNDLE_BUILT_IN
  THEN MatchBoolean(FALSE)
  ELSE IF StripNativePrefix(moduleName) \in BuiltinAllowList
  THEN MatchBoolean(TRUE)
  ELSE IF /\ endsWith(context.originModulePath, <<"InitializeCore", ".", "js">>)
          /\ startsWith(moduleName, <<".", ".", "/", ".", ".", "/", "src", "/", "private", "/", "setup", "/", "setUpDOM">>)
  THEN MatchObject(<<"react-native", "/", "src", "/", "private", "/", "setup", "/", "setUpDOM">>)
  ELSE MatchBoolean(StripNativePrefix(moduleName) \in BuiltinReactNativeList)

\* externals[2].match without the check of clientboundary.
matchWeakOutsideClientBoundary(context, moduleName, platform) ==
  IF \/ context.customResolverOptions.exporting
     \/ isServerEnvironment(context.customResolverOptions.environment)
  THEN MatchBoolean(FALSE)
  ELSE IF endsWith(moduleName, <<"/", "package", ".", "json">>)
  THEN MatchBoolean(FALSE)
  ELSE MatchBoolean(
         \/ moduleName \in WeakExternals
         \/ MatchOptSubpathPlus(moduleName, <<"react-dom">>)
         \/ MatchOptSubpathPlus(moduleName, <<"metro-runtime">>)
         \/ moduleName = <<"@babel", "/", "runtime", "/", "helpers", "/", "wrapNativeSuper">>)

\* externals[2].match
matchWeak(context, moduleName, platform) ==
  IF \/ context.customResolverOptions.exporting
     \/ isServerEnvironment(context.customResolverOptions.environment)
     \/ ~context.customResolverOptions.clientboundary
  THEN MatchBoolean(FALSE)
  ELSE IF endsWith(moduleName, <<"/", "package", ".", "json">>)
  THEN MatchBoolean(FALSE)
  ELSE MatchBoolean(
         \/ moduleName \in WeakExternals
         \/ MatchOptSubpathPlus(moduleName, <<"react-dom">>)
         \/ MatchOptSubpathPlus(moduleName, <<"metro-runtime">>)
         \/ moduleName = <<"@babel", "/", "runtime", "/", "helpers", "/", "wrapNativeSuper">>)

\* externals with the weak rule listed before the builtin rule.
externalsWeakBeforeBuiltin == <<"node", "weak", "builtin">>

\* The replace kinds of the rules, in the order of the table.
externals == <<"node", "builtin", "weak">>

\* A rule of the table: the match function of one of the three rules and
\* the replace kind the rule declares.
Rule(match, replace) == [match |-> match, replace |-> replace]

\* The table as the file declares it.
declaredRules == [i \in DOMAIN externals |-> Rule(externals[i], externals[i])]

externalMatch(replace, context, moduleName, platform) ==
  CASE replace = "node" -> matchNode(context, moduleName)
    [] replace = "builtin" -> matchBuiltin(context, moduleName)
    [] replace = "weak" -> matchWeak(context, moduleName, platform)
    [] OTHER -> MatchBoolean(FALSE)

\* ------------------------------------------------------------------------
\* Generated sources
\* ------------------------------------------------------------------------
Registration(id, contents) == [id |-> id, contents |-> contents]

nodeExternalContents(moduleId) ==
  <<"module.exports=$$require_external('node:">> \o moduleId \o <<"')", ";">>

customNodeContents(moduleName) ==
  <<"module.exports=$$require_external('">> \o moduleName \o <<"')">>

builtinContents(interopName) ==
  <<"module.exports=__native__r('native:">> \o StripNativePrefix(interopName) \o <<"')">>

\* weakContents that JSON-encodes numeric ids too.
weakContentsAlwaysEncoded(moduleName, opaqueId) ==
  <<"module.exports=/*">> \o moduleName \o <<"*/__r(">>
    \o JSONstringify(opaqueId.text) \o <<")">>

weakContents(moduleName, opaqueId) ==
  IF opaqueId.isNumber
  THEN <<"module.exports=/*">> \o moduleName \o <<"*/__r(">> \o opaqueId.text \o <<")">>
  ELSE <<"module.exports=/*">> \o moduleName \o <<"*/__r(">>
         \o JSONstringify(opaqueId.text) \o <<")">>

ASSET_REGISTRY_SRC ==
  <<"const assets=[];module.exports={registerAsset:s=>assets.push(s),getAssetByID:s=>assets[s-1]};">>

\* ------------------------------------------------------------------------
\* Strategies
\* ------------------------------------------------------------------------
\* The chunks of this model that begin with "react-".
ReactDashChunks ==
  {"react-native", "react-native-web", "react-dom", "react-is", "react-refresh"}

\* originModulePath.match(/[\\/]node_modules[\\/](react[-\\/]|scheduler[\\/])/)
isReactPackageOrigin(originModulePath) ==
  \/ includes(originModulePath, <<"/", "node_modules", "/", "react", "/">>)
  \/ includes(originModulePath, <<"/", "node_modules", "/", "scheduler", "/">>)
  \/ \E chunk \in ReactDashChunks : includes(originModulePath, <<"/", "node_modules", "/">> \o <<chunk>>)

requestDevMockProdReact(context, moduleName, platform) ==
  IF ~context.dev \/ EXPO_BUNDLE_BUILT_IN THEN ReturnNull(<<>>, <<>>)
  ELSE IF \/ /\ platform # "web"
             /\ includes(context.originModulePath, <<"/", "node_modules", "/", "react-native", "/">>)
             /\ \/ includes(moduleName, <<"/", "ReactFabric-prod">>)
                \/ includes(moduleName, <<"ReactNativeRenderer-prod">>)
          \/ /\ \/ endsWith(moduleName, <<".", "production", ".", "min", ".", "js">>)
                \/ endsWith(moduleName, <<".", "production", ".", "js">>)
             /\ isReactPackageOrigin(context.originModulePath)
  THEN Return(EmptyResolution, <<>>, <<>>)
  ELSE ReturnNull(<<>>, <<>>)

\* tsconfig paths. The mapping is {paths, baseUrl, hasBaseUrl}: an entry of
\* paths is a pattern and its first target; with star the pattern is
\* prefix/* and the target is target/*, without it both are exact.
NoTsConfig == [enabled |-> FALSE, paths |-> <<>>, baseUrl |-> NoPath, hasBaseUrl |-> FALSE]

\* config.projectRoot
projectRoot == <<"/", "app">>

\* A tsconfig.json as it is read: null (not present), or its paths object
\* (hasPaths, even when empty) and its baseUrl (hasBaseUrl).
NoTsConfigFile ==
  [present |-> FALSE, hasPaths |-> FALSE, paths |-> <<>>, hasBaseUrl |-> FALSE,
   baseUrl |-> NoPath]

\* resolveWithTsConfigPaths.bind(resolveWithTsConfigPaths, {paths, baseUrl, hasBaseUrl})
bindTsConfigPaths(file) ==
  [enabled |-> TRUE,
   paths |-> IF file.hasPaths THEN file.paths ELSE <<>>,
   baseUrl |-> IF file.hasBaseUrl THEN file.baseUrl ELSE projectRoot,
   hasBaseUrl |-> file.hasBaseUrl]

\* initialTsConfigResolve that binds only a non-empty paths object.
initialTsConfigResolveNonEmpty(isEnabled, file) ==
  IF isEnabled /\ file.present /\ file.hasPaths /\ Len(file.paths) > 0
  THEN bindTsConfigPaths(file)
  ELSE NoTsConfig

\* The value tsConfigResolve is constructed with.
initialTsConfigResolve(isEnabled, file) ==
  IF isEnabled /\ file.present /\ (file.hasPaths \/ file.hasBaseUrl)
  THEN bindTsConfigPaths(file)
  ELSE NoTsConfig

\* reloadedTsConfigResolve that binds as the constructor does.
reloadedAsConstructed(file) ==
  IF file.present /\ (file.hasPaths \/ file.hasBaseUrl)
  THEN bindTsConfigPaths(file)
  ELSE NoTsConfig

\* The value the reload callback assigns to tsConfigResolve.
reloadedTsConfigResolve(file) ==
  IF file.present /\ file.hasPaths /\ Len(file.paths) > 0
  THEN bindTsConfigPaths(file)
  ELSE NoTsConfig

\* resolveWithTsConfigPaths(config, {originModulePath, moduleName}, resolve):
\* the first pattern that matches is resolved below baseUrl; without a match
\* the specifier itself is resolved below baseUrl when the config has one.
resolveWithTsConfigPaths(config, originModulePath, moduleName, context, platform) ==
  LET hits == { i \in DOMAIN config.paths :
                  IF config.paths[i].star
                  THEN MatchSubpathPlus(moduleName, config.paths[i].prefix)
                  ELSE moduleName = config.paths[i].prefix }
  IN  IF \/ (config.paths = <<>> /\ ~config.hasBaseUrl)
         \/ includes(originModulePath, <<"node_modules">>)
         \/ Head(moduleName) \in {".", "/"}
      THEN ReturnNull(<<>>, <<>>)
      ELSE IF hits # {}
      THEN LET p == config.paths[CHOOSE i \in hits : \A j \in hits : i <= j]
               star == SubSeq(moduleName, Len(p.prefix) + 2, Len(moduleName))
               nextModuleName ==
                 config.baseUrl \o <<"/">> \o p.target
                   \o (IF p.star THEN <<"/">> \o star ELSE <<>>)
           IN  getOptionalResolver(context, platform, nextModuleName)
      ELSE IF config.hasBaseUrl
      THEN getOptionalResolver(context, platform, config.baseUrl \o <<"/">> \o moduleName)
      ELSE ReturnNull(<<>>, <<>>)

\* requestTsconfigPaths reading the mapping of a reload still in flight.
requestTsconfigPathsInFlight(context, moduleName, platform) ==
  LET mapping == IF reloads = {} THEN tsConfigResolve
                 ELSE reloadedTsConfigResolve(CHOOSE file \in reloads : TRUE)
  IN  IF ~mapping.enabled THEN ReturnNull(<<>>, <<>>)
      ELSE resolveWithTsConfigPaths(mapping, context.originModulePath, moduleName,
                                    context, platform)

requestTsconfigPaths(context, moduleName, platform) ==
  IF ~tsConfigResolve.enabled THEN ReturnNull(<<>>, <<>>)
  ELSE resolveWithTsConfigPaths(tsConfigResolve, context.originModulePath, moduleName,
                                context, platform)

\* requestNodeExternals with an optional resolve that swallows every error.
requestNodeExternalsAnyFailure(context, moduleName, platform) ==
  LET isServer == \/ context.customResolverOptions.environment = "node"
                  \/ context.customResolverOptions.environment = "react-server"
      moduleId == isNodeExternal(moduleName)
  IN  IF moduleId = NoPath THEN ReturnNull(<<>>, <<>>)
      ELSE IF ~isServer
      THEN LET result == getOptionalResolverCatchAll(context, platform, moduleName)
           IN  IF result.tag = "throw" THEN result
               ELSE IF result.tag = "null" /\ platform # "web"
               THEN ReturnNull(<<>>, result.base)
               ELSE IF result.tag = "null"
               THEN Return(EmptyResolution, <<>>, result.base)
               ELSE result
      ELSE LET contents == nodeExternalContents(moduleId)
               virtualModuleId == <<NUL>> \o <<"node", ":">> \o moduleId
           IN  Return(SourceFile(virtualModuleId),
                      <<Registration(virtualModuleId, contents)>>, <<>>)

\* requestNodeExternals trying the same-named module first on a server too.
requestNodeExternalsPolyfillOnServer(context, moduleName, platform) ==
  LET moduleId == isNodeExternal(moduleName)
  IN  IF moduleId = NoPath THEN ReturnNull(<<>>, <<>>)
      ELSE LET result == getOptionalResolver(context, platform, moduleName)
           IN  IF result.tag = "throw" THEN result
               ELSE IF result.tag = "null" /\ platform # "web"
               THEN ReturnNull(<<>>, result.base)
               ELSE IF result.tag = "null"
               THEN Return(EmptyResolution, <<>>, result.base)
               ELSE result

\* requestNodeExternals stubbing on a client without looking for a
\* same-named module.
requestNodeExternalsNoPolyfill(context, moduleName, platform) ==
  LET isServer == \/ context.customResolverOptions.environment = "node"
                  \/ context.customResolverOptions.environment = "react-server"
      moduleId == isNodeExternal(moduleName)
  IN  IF moduleId = NoPath THEN ReturnNull(<<>>, <<>>)
      ELSE IF ~isServer
      THEN IF platform # "web" THEN ReturnNull(<<>>, <<>>)
           ELSE Return(EmptyResolution, <<>>, <<>>)
      ELSE LET contents == nodeExternalContents(moduleId)
               virtualModuleId == <<NUL>> \o <<"node", ":">> \o moduleId
           IN  Return(SourceFile(virtualModuleId),
                      <<Registration(virtualModuleId, contents)>>, <<>>)

\* requestNodeExternals stubbing an unresolvable module on every platform.
requestNodeExternalsStubOnNative(context, moduleName, platform) ==
  LET isServer == \/ context.customResolverOptions.environment = "node"
                  \/ context.customResolverOptions.environment = "react-server"
      moduleId == isNodeExternal(moduleName)
  IN  IF moduleId = NoPath THEN ReturnNull(<<>>, <<>>)
      ELSE IF ~isServer
      THEN LET result == getOptionalResolver(context, platform, moduleName)
           IN  IF result.tag = "throw" THEN result
               ELSE IF result.tag = "null"
               THEN Return(EmptyResolution, <<>>, result.base)
               ELSE result
      ELSE LET contents == nodeExternalContents(moduleId)
               virtualModuleId == <<NUL>> \o <<"node", ":">> \o moduleId
           IN  Return(SourceFile(virtualModuleId),
                      <<Registration(virtualModuleId, contents)>>, <<>>)

requestNodeExternals(context, moduleName, platform) ==
  LET isServer == \/ context.customResolverOptions.environment = "node"
                  \/ context.customResolverOptions.environment = "react-server"
      moduleId == isNodeExternal(moduleName)
  IN  IF moduleId = NoPath THEN ReturnNull(<<>>, <<>>)
      ELSE IF ~isServer
      THEN LET result == getOptionalResolver(context, platform, moduleName)
           IN  IF result.tag = "throw" THEN result
               ELSE IF result.tag = "null" /\ platform # "web"
               THEN ReturnNull(<<>>, result.base)
               ELSE IF result.tag = "null"
               THEN Return(EmptyResolution, <<>>, result.base)
               ELSE result
      ELSE LET contents == nodeExternalContents(moduleId)
               virtualModuleId == <<NUL>> \o <<"node", ":">> \o moduleId
           IN  Return(SourceFile(virtualModuleId),
                      <<Registration(virtualModuleId, contents)>>, <<>>)

\* new CommandError(`Invalid external alias type: "${external.replace}" for
\* module "${moduleName}" (platform: ${platform}, originModulePath: ...)`)
invalidExternalError(replace, moduleName, platform, originModulePath) ==
  [class |-> "CommandError",
   about |-> <<"Invalid external alias type", ":", " \"", replace, "\" for module \"">>
               \o moduleName \o <<"\" (platform", ":", " ", platform, ", originModulePath", ":",
                                  " ">> \o originModulePath \o <<")">>]

\* The rule that matched returns null instead of raising the error.
applyExternalSkipsUnknown(replace, results, idMap, context, moduleName, platform) ==
  LET interopName == IF results.isObject THEN results.name ELSE moduleName
  IN  CASE replace = "empty" -> Return(EmptyResolution, <<>>, <<>>)
        [] replace = "weak" ->
             LET realModule == getStrictResolver(context, platform, moduleName)
             IN  IF realModule.tag = "throw" THEN realModule
                 ELSE LET realPath == IF realModule.res.type = "sourceFile"
                                      THEN realModule.res.filePath
                                      ELSE moduleName
                          opaqueId == idFactory(idMap, realPath)
                          contents == weakContents(moduleName, opaqueId)
                          virtualModuleId == <<NUL>> \o <<"weak", ":">> \o opaqueId.text
                      IN  [Return(SourceFile(virtualModuleId),
                                  <<Registration(virtualModuleId, contents)>>,
                                  realModule.base)
                             EXCEPT !.ids = <<realPath>>]
        [] replace = "node" ->
             LET contents == customNodeContents(moduleName)
                 virtualModuleId == <<NUL>> \o <<"node", ":">> \o moduleName
             IN  Return(SourceFile(virtualModuleId),
                        <<Registration(virtualModuleId, contents)>>, <<>>)
        [] replace = "builtin" ->
             LET contents == builtinContents(interopName)
                 virtualModuleId == <<NUL>> \o <<"native", ":">> \o interopName
             IN  Return(SourceFile(virtualModuleId),
                        <<Registration(virtualModuleId, contents)>>, <<>>)
        [] OTHER -> ReturnNull(<<>>, <<>>)

\* The body of the loop of requestCustomExternals for one matching rule.
applyExternal(replace, results, idMap, context, moduleName, platform) ==
  LET interopName == IF results.isObject THEN results.name ELSE moduleName
  IN  CASE replace = "empty" -> Return(EmptyResolution, <<>>, <<>>)
        [] replace = "weak" ->
             LET realModule == getStrictResolver(context, platform, moduleName)
             IN  IF realModule.tag = "throw" THEN realModule
                 ELSE LET realPath == IF realModule.res.type = "sourceFile"
                                      THEN realModule.res.filePath
                                      ELSE moduleName
                          opaqueId == idFactory(idMap, realPath)
                          contents == weakContents(moduleName, opaqueId)
                          virtualModuleId == <<NUL>> \o <<"weak", ":">> \o opaqueId.text
                      IN  [Return(SourceFile(virtualModuleId),
                                  <<Registration(virtualModuleId, contents)>>,
                                  realModule.base)
                             EXCEPT !.ids = <<realPath>>]
        [] replace = "node" ->
             LET contents == customNodeContents(moduleName)
                 virtualModuleId == <<NUL>> \o <<"node", ":">> \o moduleName
             IN  Return(SourceFile(virtualModuleId),
                        <<Registration(virtualModuleId, contents)>>, <<>>)
        [] replace = "builtin" ->
             LET contents == builtinContents(interopName)
                 virtualModuleId == <<NUL>> \o <<"native", ":">> \o interopName
             IN  Return(SourceFile(virtualModuleId),
                        <<Registration(virtualModuleId, contents)>>, <<>>)
        [] OTHER ->
             Throw(invalidExternalError(replace, moduleName, platform,
                                        context.originModulePath), <<>>, <<>>)

\* for (const external of externals), from the rule at index i on.
RECURSIVE customExternalsFrom(_, _, _, _, _, _)
customExternalsFrom(rules, i, idMap, context, moduleName, platform) ==
  IF i > Len(rules) THEN ReturnNull(<<>>, <<>>)
  ELSE LET results == externalMatch(rules[i].match, context, moduleName, platform)
       IN  IF results.match
           THEN applyExternal(rules[i].replace, results, idMap, context, moduleName, platform)
           ELSE customExternalsFrom(rules, i + 1, idMap, context, moduleName, platform)

requestCustomExternals(idMap, context, moduleName, platform) ==
  IF endsWith(moduleName, <<"/", "package", ".", "json">>) THEN ReturnNull(<<>>, <<>>)
  ELSE IF \/ endsWith(context.originModulePath, <<".", "css">>)
          \/ endsWith(context.originModulePath, <<".", "scss">>)
          \/ endsWith(context.originModulePath, <<".", "sass">>)
  THEN ReturnNull(<<>>, <<>>)
  ELSE customExternalsFrom(externalRules, 1, idMap, context, moduleName, platform)

\* aliases without the entry for react-native/index.
aliasesWithoutIndex ==
  "web" :>
    (   <<"react-native">> :> <<"react-native-web">>
     @@ <<"react-native", "/", "Libraries", "/", "Image", "/", "resolveAssetSource">> :>
          <<"expo-asset", "/", "build", "/", "resolveAssetSource">> )

\* Platform-exact aliases.
aliases ==
  "web" :>
    (   <<"react-native">> :> <<"react-native-web">>
     @@ <<"react-native", "/", "index">> :> <<"react-native-web">>
     @@ <<"react-native", "/", "Libraries", "/", "Image", "/", "resolveAssetSource">> :>
          <<"expo-asset", "/", "build", "/", "resolveAssetSource">> )

\* resolveFrom.silent probes of the project.
vectorIconsInstalled == TRUE

expoRouterRscInstalled == TRUE

\* A universal alias [RegExp, template]. The regular expressions of this file
\* are a literal name followed by an optional (\/.*)? group, with or without
\* the end anchor.
UniversalAlias(name, hasSubpathGroup, anchoredEnd, template) ==
  [name |-> name, hasSubpathGroup |-> hasSubpathGroup, anchoredEnd |-> anchoredEnd,
   template |-> template]

\* The list getUniversalAliases() computes.
computeUniversalAliases ==
  (IF vectorIconsInstalled
   THEN << UniversalAlias(<<"react-native-vector-icons">>, TRUE, FALSE,
                          <<"@expo", "/", "vector-icons", "$1">>) >>
   ELSE <<>>)
  \o
  (IF isReactServerComponentsEnabled /\ expoRouterRscInstalled
   THEN << UniversalAlias(<<"expo-router">>, FALSE, TRUE, <<"expo-router", "/", "rsc">>),
           UniversalAlias(<<"expo-router", "/", "entry-classic">>, FALSE, TRUE,
                          <<"expo-router", "/", "rsc", "/", "entry">>) >>
   ELSE <<>>)

\* moduleName.match(matcher): whether it matches and what group 1 captured
\* (the empty string when it did not participate).
aliasMatch(alias, moduleName) ==
  LET rest == SubSeq(moduleName, Len(alias.name) + 1, Len(moduleName))
      group == IF alias.hasSubpathGroup /\ rest # <<>> /\ Head(rest) = "/" THEN rest ELSE <<>>
  IN  [ match |-> /\ startsWith(moduleName, alias.name)
                  /\ (alias.anchoredEnd => group = rest),
        group1 |-> group ]

\* alias.replace that leaves $1 in place when the group did not participate.
RECURSIVE aliasReplaceKeepsToken(_, _)
aliasReplaceKeepsToken(template, group1) ==
  IF template = <<>> THEN <<>>
  ELSE IF Head(template) = "$1" /\ group1 # <<>>
  THEN group1 \o aliasReplaceKeepsToken(Tail(template), group1)
  ELSE <<Head(template)>> \o aliasReplaceKeepsToken(Tail(template), group1)

\* alias.replace(/\$(\d+)/g, (_, index) => match[index] ?? '')
RECURSIVE aliasReplace(_, _)
aliasReplace(template, group1) ==
  IF template = <<>> THEN <<>>
  ELSE IF Head(template) = "$1" THEN group1 \o aliasReplace(Tail(template), group1)
  ELSE <<Head(template)>> \o aliasReplace(Tail(template), group1)

RECURSIVE universalAliasFrom(_, _, _, _, _)
universalAliasFrom(list, i, context, moduleName, platform) ==
  IF i > Len(list) THEN ReturnNull(<<>>, <<>>)
  ELSE LET m == aliasMatch(list[i], moduleName)
       IN  IF m.match
           THEN getStrictResolver(context, platform, aliasReplace(list[i].template, m.group1))
           ELSE universalAliasFrom(list, i + 1, context, moduleName, platform)

\* _universalAliases before the first call of getUniversalAliases.
NoUniversalAliases == [set |-> FALSE, list |-> <<>>]

\* getUniversalAliases returning the list as published, before it is filled.
getUniversalAliasesUnfilled(cache) ==
  IF cache.set THEN cache.list ELSE <<>>

\* getUniversalAliases(): the cached list, or the list it computes and caches.
getUniversalAliases(cache) ==
  IF cache.set THEN cache.list ELSE computeUniversalAliases

\* Whether requestAlias answers from the platform's exact table.
hasExactAlias(moduleName, platform) ==
  platform \in DOMAIN aliases /\ moduleName \in DOMAIN aliases[platform]

requestAlias(context, moduleName, platform) ==
  IF hasExactAlias(moduleName, platform)
  THEN getStrictResolver(context, platform, aliases[platform][moduleName])
  ELSE universalAliasFrom(getUniversalAliases(universalAliases), 1, context, moduleName,
                          platform)

\* _universalAliases after a resolve call that consulted the strategies of
\* trace: requestAlias fills it when it gets past the exact table.
universalAliasesAfter(cache, trace, moduleName, platform) ==
  IF /\ \E i \in 1..Len(trace) : trace[i] = "requestAlias"
     /\ ~hasExactAlias(moduleName, platform)
  THEN [set |-> TRUE, list |-> getUniversalAliases(cache)]
  ELSE cache

\* getAssetRegistryModule returning the id without registering it.
getAssetRegistryModuleUnregistered ==
  Return(SourceFile(<<NUL>> \o <<"polyfill", ":", "assets-registry">>), <<>>, <<>>)

getAssetRegistryModule ==
  LET virtualModuleId == <<NUL>> \o <<"polyfill", ":", "assets-registry">>
  IN  Return(SourceFile(virtualModuleId),
             <<Registration(virtualModuleId, ASSET_REGISTRY_SRC)>>, <<>>)

requestStableAssetRegistry(context, moduleName, platform) ==
  IF \/ moduleName = <<"@react-native", "/", "assets-registry", "/", "registry">>
     \/ moduleName = <<"@react-native", "/", "assets-registry", "/", "registry", ".", "js">>
  THEN getAssetRegistryModule
  ELSE IF /\ platform = "web"
          /\ includes(context.originModulePath, <<"node_modules", "/", "react-native-web", "/">>)
          /\ includes(moduleName, <<"/", "modules", "/", "AssetRegistry">>)
  THEN getAssetRegistryModule
  ELSE ReturnNull(<<>>, <<>>)

\* The sticky resolver pins these modules: it resolves them strictly and
\* leaves every other specifier to the rest of the chain.
StickyModules == { <<"expo-modules-core">> }

requestStickyModule(context, moduleName, platform) ==
  IF moduleName \in StickyModules
  THEN getStrictResolver(context, platform, moduleName)
  ELSE ReturnNull(<<>>, <<>>)

\* p.replace(/\\/g, '/')
normalizeSlashes(p) == [i \in DOMAIN p |-> IF p[i] = "\\" THEN "/" ELSE p[i]]

\* p.replace(/.*node_modules\//, '')
dropUntilNodeModules(p) ==
  LET at == { i \in 1..(Len(p) - 1) : p[i] = "node_modules" /\ p[i + 1] = "/" }
  IN  IF at = {} THEN p
      ELSE SubSeq(p, (CHOOSE i \in at : \A j \in at : j <= i) + 2, Len(p))

\* Files below static/shims and static/canary of the CLI package.
ShimTable == { <<"react-native-web", "/", "dist", "/", "exports", "/", "AppRegistry", "/", "AppContainer", ".", "js">> }

CanaryTable == { <<"react-native", "/", "Libraries", "/", "Renderer", "/", "shims", "/", "ReactNative", ".", "js">> }

\* shouldCreateVirtualShim over an empty shim table.
shouldCreateVirtualShimNever(normalName) == NoPath

shouldCreateVirtualShim(normalName) ==
  IF normalName \in ShimTable THEN <<"/", "cli", "/", "static", "/", "shims", "/">> \o normalName ELSE NoPath

shouldCreateVirtualCanary(normalName) ==
  IF normalName \in CanaryTable THEN <<"/", "cli", "/", "static", "/", "canary", "/">> \o normalName ELSE NoPath

\* fs.readFileSync(shimFile, 'utf8')
readFileSync(file) == <<"contents of ">> \o file

\* The error of a path the base resolver could not resolve, raised for a
\* native-only module.
nativeOnlyModuleNotFound(moduleName, originModulePath) ==
  [class |-> "FailedToResolvePathError", about |-> moduleName]

\* new FailedToResolvePathError(`Importing native-only module "${moduleName}"
\* on web from: ${context.originModulePath}`)
nativeOnlyModuleError(moduleName, originModulePath) ==
  [class |-> "FailedToResolvePathError",
   about |-> <<"Importing native-only module \"">> \o moduleName
               \o <<"\" on web from: ">> \o originModulePath]

\* requestPostRewrites that reads and registers the shim on every call.
requestPostRewritesAlwaysReads(registry, context, moduleName, platform) ==
  LET result == getStrictResolver(context, platform, moduleName)
  IN  IF result.tag = "throw" THEN result
      ELSE IF result.res.type # "sourceFile" THEN result
      ELSE IF platform = "web"
      THEN IF ~includes(result.res.filePath, <<"node_modules">>) THEN result
           ELSE IF includes(moduleName,
                            <<"react-native", "/", "Libraries", "/", "Utilities", "/", "codegenNativeCommands">>)
           THEN Throw(nativeOnlyModuleError(moduleName, context.originModulePath),
                      <<>>, result.base)
           ELSE LET normalName == dropUntilNodeModules(normalizeSlashes(result.res.filePath))
                    shimFile == shouldCreateVirtualShim(normalName)
                    virtualId == <<NUL>> \o <<"shim", ":">> \o normalName
                IN  IF shimFile = NoPath THEN result
                    ELSE Return([result.res EXCEPT !.filePath = virtualId],
                                <<Registration(virtualId, readFileSync(shimFile))>>,
                                result.base)
      ELSE LET isServer == \/ context.customResolverOptions.environment = "node"
                           \/ context.customResolverOptions.environment = "react-server"
               normal == normalizeSlashes(result.res.filePath)
           IN  IF isServer /\ endsWith(normal, <<"react-native", "/", "Libraries", "/", "Core", "/", "InitializeCore", ".", "js">>)
               THEN Return(EmptyResolution, <<>>, result.base)
               ELSE IF isReactCanaryEnabled /\ includes(result.res.filePath, <<"node_modules">>)
               THEN LET normalName == dropUntilNodeModules(normalizeSlashes(result.res.filePath))
                        canaryFile == shouldCreateVirtualCanary(normalName)
                    IN  IF canaryFile = NoPath THEN result
                        ELSE Return([result.res EXCEPT !.filePath = canaryFile], <<>>,
                                    result.base)
               ELSE result

\* requestPostRewrites that takes only `node` for a server environment.
requestPostRewritesNodeOnly(registry, context, moduleName, platform) ==
  LET result == getStrictResolver(context, platform, moduleName)
  IN  IF result.tag = "throw" THEN result
      ELSE IF result.res.type # "sourceFile" THEN result
      ELSE IF platform = "web"
      THEN IF ~includes(result.res.filePath, <<"node_modules">>) THEN result
           ELSE IF includes(moduleName,
                            <<"react-native", "/", "Libraries", "/", "Utilities", "/", "codegenNativeCommands">>)
           THEN Throw(nativeOnlyModuleError(moduleName, context.originModulePath),
                      <<>>, result.base)
           ELSE LET normalName == dropUntilNodeModules(normalizeSlashes(result.res.filePath))
                    shimFile == shouldCreateVirtualShim(normalName)
                    virtualId == <<NUL>> \o <<"shim", ":">> \o normalName
                IN  IF shimFile = NoPath THEN result
                    ELSE Return([result.res EXCEPT !.filePath = virtualId],
                                IF hasVirtualModule(registry, virtualId) THEN <<>>
                                ELSE <<Registration(virtualId, readFileSync(shimFile))>>,
                                result.base)
      ELSE LET isServer == context.customResolverOptions.environment = "node"
               normal == normalizeSlashes(result.res.filePath)
           IN  IF isServer /\ endsWith(normal, <<"react-native", "/", "Libraries", "/", "Core", "/", "InitializeCore", ".", "js">>)
               THEN Return(EmptyResolution, <<>>, result.base)
               ELSE IF isReactCanaryEnabled /\ includes(result.res.filePath, <<"node_modules">>)
               THEN LET normalName == dropUntilNodeModules(normalizeSlashes(result.res.filePath))
                        canaryFile == shouldCreateVirtualCanary(normalName)
                    IN  IF canaryFile = NoPath THEN result
                        ELSE Return([result.res EXCEPT !.filePath = canaryFile], <<>>,
                                    result.base)
               ELSE result

\* requestPostRewrites that resolves with the optional resolver and returns
\* null when the specifier does not resolve.
requestPostRewritesOptional(registry, context, moduleName, platform) ==
  LET result == getOptionalResolver(context, platform, moduleName)
  IN  IF result.tag # "return" THEN result
      ELSE IF result.res.type # "sourceFile" THEN result
      ELSE IF platform = "web"
      THEN IF ~includes(result.res.filePath, <<"node_modules">>) THEN result
           ELSE IF includes(moduleName,
                            <<"react-native", "/", "Libraries", "/", "Utilities", "/", "codegenNativeCommands">>)
           THEN Throw(nativeOnlyModuleError(moduleName, context.originModulePath),
                      <<>>, result.base)
           ELSE LET normalName == dropUntilNodeModules(normalizeSlashes(result.res.filePath))
                    shimFile == shouldCreateVirtualShim(normalName)
                    virtualId == <<NUL>> \o <<"shim", ":">> \o normalName
                IN  IF shimFile = NoPath THEN result
                    ELSE Return([result.res EXCEPT !.filePath = virtualId],
                                IF hasVirtualModule(registry, virtualId) THEN <<>>
                                ELSE <<Registration(virtualId, readFileSync(shimFile))>>,
                                result.base)
      ELSE LET isServer == \/ context.customResolverOptions.environment = "node"
                           \/ context.customResolverOptions.environment = "react-server"
               normal == normalizeSlashes(result.res.filePath)
           IN  IF isServer /\ endsWith(normal, <<"react-native", "/", "Libraries", "/", "Core", "/", "InitializeCore", ".", "js">>)
               THEN Return(EmptyResolution, <<>>, result.base)
               ELSE IF isReactCanaryEnabled /\ includes(result.res.filePath, <<"node_modules">>)
               THEN LET normalName == dropUntilNodeModules(normalizeSlashes(result.res.filePath))
                        canaryFile == shouldCreateVirtualCanary(normalName)
                    IN  IF canaryFile = NoPath THEN result
                        ELSE Return([result.res EXCEPT !.filePath = canaryFile], <<>>,
                                    result.base)
               ELSE result

requestPostRewrites(registry, context, moduleName, platform) ==
  LET result == getStrictResolver(context, platform, moduleName)
  IN  IF result.tag = "throw" THEN result
      ELSE IF result.res.type # "sourceFile" THEN result
      ELSE IF platform = "web"
      THEN IF ~includes(result.res.filePath, <<"node_modules">>) THEN result
           ELSE IF includes(moduleName,
                            <<"react-native", "/", "Libraries", "/", "Utilities", "/", "codegenNativeCommands">>)
           THEN Throw(nativeOnlyModuleError(moduleName, context.originModulePath),
                      <<>>, result.base)
           ELSE LET normalName == dropUntilNodeModules(normalizeSlashes(result.res.filePath))
                    shimFile == shouldCreateVirtualShim(normalName)
                    virtualId == <<NUL>> \o <<"shim", ":">> \o normalName
                IN  IF shimFile = NoPath THEN result
                    ELSE Return([result.res EXCEPT !.filePath = virtualId],
                                IF hasVirtualModule(registry, virtualId) THEN <<>>
                                ELSE <<Registration(virtualId, readFileSync(shimFile))>>,
                                result.base)
      ELSE LET isServer == \/ context.customResolverOptions.environment = "node"
                           \/ context.customResolverOptions.environment = "react-server"
               normal == normalizeSlashes(result.res.filePath)
           IN  IF isServer /\ endsWith(normal, <<"react-native", "/", "Libraries", "/", "Core", "/", "InitializeCore", ".", "js">>)
               THEN Return(EmptyResolution, <<>>, result.base)
               ELSE IF isReactCanaryEnabled /\ includes(result.res.filePath, <<"node_modules">>)
               THEN LET normalName == dropUntilNodeModules(normalizeSlashes(result.res.filePath))
                        canaryFile == shouldCreateVirtualCanary(normalName)
                    IN  IF canaryFile = NoPath THEN result
                        ELSE Return([result.res EXCEPT !.filePath = canaryFile], <<>>,
                                    result.base)
               ELSE result

\* The fallback resolver retries the known dependencies of expo and
\* expo-router from those packages and leaves every other specifier alone.
FallbackModules == { <<"expo-modules-core">> }

requestFallbackModule(context, moduleName, platform) ==
  IF moduleName \in FallbackModules
  THEN getStrictResolver(context, platform, moduleName)
  ELSE ReturnNull(<<>>, <<>>)

\* ------------------------------------------------------------------------
\* Context Mutator
\* ------------------------------------------------------------------------
\* /mjs$/.test(ext) and /jsx?$/.test(ext), by the last part of the extension.
endsInMjs(ext) == ext[Len(ext)] \in {"mjs"}

endsInJs(ext) == ext[Len(ext)] \in {"js", "jsx", "mjs", "cjs"}

\* getNodejsExtensions that appends the mjs extensions at the end.
getNodejsExtensionsMjsLast(srcExts) ==
  LET mjsExts == SelectSeq(srcExts, endsInMjs)
      rest == SelectSeq(srcExts, LAMBDA ext : ~endsInMjs(ext))
  IN  rest \o mjsExts

getNodejsExtensions(srcExts) ==
  LET mjsExts == SelectSeq(srcExts, endsInMjs)
      rest == SelectSeq(srcExts, LAMBDA ext : ~endsInMjs(ext))
      js == { i \in 1..Len(rest) : endsInJs(rest[i]) }
      jsIndex == IF js = {} THEN 0 ELSE CHOOSE i \in js : \A j \in js : j <= i
  IN  SubSeq(rest, 1, jsIndex) \o mjsExts \o SubSeq(rest, jsIndex + 1, Len(rest))

\* The value of config.resolver.sourceExts in a project.
DefaultSourceExts == << <<"ts">>, <<"mjs">>, <<"js">>, <<"json">> >>

\* The cache when every server call computes the list again.
nodejsSourceExtensionsAfterEveryCall(cache, environment, srcExts) ==
  IF isServerEnvironment(environment)
  THEN [set |-> TRUE, list |-> getNodejsExtensions(srcExts)]
  ELSE cache

\* nodejsSourceExtensions after a call of the Context Mutator.
nodejsSourceExtensionsAfter(cache, environment, srcExts) ==
  IF isServerEnvironment(environment) /\ ~cache.set
  THEN [set |-> TRUE, list |-> getNodejsExtensions(srcExts)]
  ELSE cache

NoNodejsSourceExtensions == [set |-> FALSE, list |-> <<>>]

NoMutation ==
  [called |-> FALSE, moduleName |-> NoPath, platform |-> "none", before |-> <<>>,
   after |-> <<>>, context |-> <<>>]

canaryModulesPath == <<"/", "cli", "/", "static", "/", "canary-full", "/", "index", ".", "js">>

withMutatedContext(immutableContext, moduleName, platform) ==
  [ immutableContext EXCEPT
      !.preferNativePlatform = (platform # "web"),
      !.originModulePath =
        IF /\ isReactCanaryEnabled
           /\ \/ MatchOptSubpathStar(moduleName, <<"react">>)
              \/ MatchOptSubpathStar(moduleName, <<"react-dom">>)
        THEN canaryModulesPath
        ELSE @ ]

\* const preferredMainFields = { web: ['browser', 'module', 'main'] }
preferredMainFields == "web" :> <<"browser", "module", "main">>

\* The main fields of a server environment, with those of node for
\* react-server as well.
serverMainFieldsOfNode(environment, platform) ==
  IF platform = "web" THEN <<"main", "module">> ELSE <<"react-native", "main", "module">>

\* The main fields the Context Mutator assigns in a server environment.
serverMainFields(environment, platform) ==
  IF environment = "react-server"
  THEN IF platform = "web"
       THEN <<"module", "main">>
       ELSE <<"react-native", "module", "main">>
  ELSE IF platform = "web"
       THEN <<"main", "module">>
       ELSE <<"react-native", "main", "module">>

\* The assignments of the Context Mutator to the object `ref` of `objects`
\* (the object its variable `context` refers to), and the cache afterwards.
assignContext(objects, ref, moduleName, platform, cache) ==
  LET canary ==
        IF /\ isReactCanaryEnabled
           /\ \/ MatchOptSubpathStar(moduleName, <<"react">>)
              \/ MatchOptSubpathStar(moduleName, <<"react-dom">>)
        THEN [objects EXCEPT ![ref].originModulePath = canaryModulesPath,
                             ![ref].disableHierarchicalLookup = FALSE]
        ELSE objects
      environment == canary[ref].customResolverOptions.environment
      filled == nodejsSourceExtensionsAfter(cache, environment, canary[ref].sourceExts)
      assigned ==
        IF isServerEnvironment(environment)
        THEN [canary EXCEPT
                ![ref].sourceExts = filled.list,
                ![ref].unstable_enablePackageExports = TRUE,
                ![ref].unstable_conditionsByPlatform = <<>>,
                ![ref].mainFields = serverMainFields(environment, platform),
                ![ref].unstable_conditionNames =
                  IF environment = "react-server"
                  THEN <<"node", "react-server", "workerd">>
                  ELSE <<"node">>]
        ELSE IF ~EXPO_METRO_NO_MAIN_FIELD_OVERRIDE /\ platform \in DOMAIN preferredMainFields
        THEN [canary EXCEPT ![ref].mainFields = preferredMainFields[platform]]
        ELSE canary
  IN  [caller |-> assigned.caller, context |-> assigned[ref], cache |-> filled]

\* The Context Mutator with `const context = immutableContext`: it assigns
\* to the object of the caller.
mutateContextInPlace(immutableContext, moduleName, platform, cache) ==
  assignContext(
    [caller |-> [immutableContext EXCEPT !.preferNativePlatform = (platform # "web")]],
    "caller", moduleName, platform, cache)

\* The Context Mutator: the object of the caller after the call, the
\* context it returns and the cache afterwards.
mutateContext(immutableContext, moduleName, platform, cache) ==
  assignContext(
    [caller |-> immutableContext,
     context |-> [immutableContext EXCEPT !.preferNativePlatform = (platform # "web")]],
    "context", moduleName, platform, cache)

\* ------------------------------------------------------------------------
\* Resolver Chain Orchestrator
\* ------------------------------------------------------------------------
\* Strategies with the custom externals consulted before the Node externals.
StrategiesCustomExternalsFirst ==
  << "requestDevMockProdReact", "requestTsconfigPaths", "requestCustomExternals",
     "requestNodeExternals", "requestAlias", "requestStableAssetRegistry",
     "requestStickyModule", "requestPostRewrites", "requestFallbackModule" >>

\* The strategies handed to withMetroResolvers, in the order of the list.
Strategies ==
  << "requestDevMockProdReact", "requestTsconfigPaths", "requestNodeExternals",
     "requestCustomExternals", "requestAlias", "requestStableAssetRegistry",
     "requestStickyModule", "requestPostRewrites", "requestFallbackModule" >>

runStrategy(name, registry, idMap, context, moduleName, platform) ==
  CASE name = "requestDevMockProdReact" -> requestDevMockProdReact(context, moduleName, platform)
    [] name = "requestTsconfigPaths" -> requestTsconfigPaths(context, moduleName, platform)
    [] name = "requestNodeExternals" -> requestNodeExternals(context, moduleName, platform)
    [] name = "requestCustomExternals" ->
         requestCustomExternals(idMap, context, moduleName, platform)
    [] name = "requestAlias" -> requestAlias(context, moduleName, platform)
    [] name = "requestStableAssetRegistry" ->
         requestStableAssetRegistry(context, moduleName, platform)
    [] name = "requestStickyModule" -> requestStickyModule(context, moduleName, platform)
    [] name = "requestPostRewrites" ->
         requestPostRewrites(registry, context, moduleName, platform)
    [] name = "requestFallbackModule" -> requestFallbackModule(context, moduleName, platform)

\* What a resolve call did: how it ended, which strategy ended it, the
\* strategies consulted in order and everything they did.
Finished(out, by, trace, regs, base, ids) ==
  [tag |-> out.tag, res |-> out.res, err |-> out.err, by |-> by, trace |-> trace,
   regs |-> regs, base |-> base, ids |-> ids]

\* The loop over the strategies from index i on: the first strategy that
\* does not return null ends the call; after the last one the call falls
\* through to the base resolver.
RECURSIVE resolveRequestFrom(_, _, _, _, _, _, _, _, _, _)
resolveRequestFrom(list, i, trace, regs, base, ids, registry, idMap, context, moduleName) ==
  IF i > Len(list)
  THEN LET out == resolver([context EXCEPT !.resolveRequest = FALSE], moduleName,
                          context.platform)
       IN  Finished(out, "upstream", trace, regs, base \o out.base, ids)
  ELSE LET out == runStrategy(list[i], setVirtualModules(registry, regs),
                              rememberIds(idMap, ids), context, moduleName, context.platform)
       IN  IF out.tag = "null"
           THEN resolveRequestFrom(list, i + 1, Append(trace, list[i]), regs \o out.regs,
                                   base \o out.base, ids \o out.ids, registry, idMap,
                                   context, moduleName)
           ELSE Finished(out, list[i], Append(trace, list[i]), regs \o out.regs,
                         base \o out.base, ids \o out.ids)

\* config.resolver.resolveRequest after withExtendedResolver.
resolveRequest(registry, idMap, immutableContext, moduleName, platform) ==
  resolveRequestFrom(Strategies, 1, <<>>, <<>>, <<>>, <<>>, registry, idMap,
                     withMutatedContext(immutableContext, moduleName, platform), moduleName)

\* ------------------------------------------------------------------------
\* LogBox
\* ------------------------------------------------------------------------
\* A function value is the list of the handlers it is made of, outermost
\* first: the console.error of the runtime, a decoration by other code
\* around the function it replaced, and the function LogBox installs, which
\* calls consoleErrorImpl. undefined is the empty list.
undefined == <<>>

nativeConsoleError == <<"console.error">>

logBoxConsoleError == <<"(...args) => consoleErrorImpl?.(...args)">>

registerError == <<"registerError">>

\* The module state before any call, and console.error of the runtime.
NoLogBox ==
  [ isLogBoxInstalled |-> FALSE,
    originalConsoleError |-> undefined,
    consoleErrorImpl |-> undefined,
    consoleError |-> nativeConsoleError ]

\* LogBox.install that assigns console.error on every install.
installAlways(box) ==
  IF box.isLogBoxInstalled THEN box
  ELSE [ isLogBoxInstalled |-> TRUE,
         originalConsoleError |-> box.consoleError,
         consoleErrorImpl |-> registerError,
         consoleError |-> logBoxConsoleError ]

\* LogBox.install()
install(box) ==
  IF box.isLogBoxInstalled THEN box
  ELSE LET isFirstInstall == box.originalConsoleError = undefined
       IN  [ isLogBoxInstalled |-> TRUE,
             originalConsoleError |->
               IF isFirstInstall THEN box.consoleError ELSE box.originalConsoleError,
             consoleErrorImpl |-> registerError,
             consoleError |->
               IF isFirstInstall THEN logBoxConsoleError ELSE box.consoleError ]

\* LogBox.uninstall()
uninstall(box) ==
  IF ~box.isLogBoxInstalled THEN box
  ELSE [box EXCEPT !.isLogBoxInstalled = FALSE,
                   !.consoleErrorImpl = box.originalConsoleError]

\* LogBox.isInstalled()
isInstalled(box) == box.isLogBoxInstalled

\* Other code decorates console.error: its function calls the one it replaced.
decorate(box) == [box EXCEPT !.consoleError = <<"decoration">> \o box.consoleError]

\* The handlers a call of a function runs, in order; the function of LogBox
\* hands the call to consoleErrorImpl.
RECURSIVE handlersOf(_, _)
handlersOf(fn, box) ==
  IF fn = undefined THEN <<>>
  ELSE IF <<Head(fn)>> = logBoxConsoleError
  THEN logBoxConsoleError \o handlersOf(box.consoleErrorImpl, box)
  ELSE IF <<Head(fn)>> = registerError
  THEN registerError
  ELSE <<Head(fn)>> \o handlersOf(Tail(fn), box)

\* One call on record: what was called, console.error before and after,
\* isInstalled() after, and the handlers a console.error call ran.
LogBoxCall(op, before, after, handlers) ==
  [ op |-> op, before |-> before.consoleError, after |-> after.consoleError,
    installed |-> isInstalled(after), handlers |-> handlers ]

\* ------------------------------------------------------------------------
\* Inputs
\* ------------------------------------------------------------------------
Platforms == {"web", "ios"}

Environments == {"undefined", "node", "react-server"}

Specifiers ==
  { <<"fs">>, <<"node", ":", "fs">>, <<"buffer">>, <<"react">>, <<"native", ":", "react">>, <<"react-dom">>,
    <<"react-dom", "/", "index">>, <<"react-dom", "/", "package", ".", "json">>, <<"react-native">>, <<"debug">>,
    <<".", ".", "/", ".", ".", "/", "src", "/", "private", "/", "setup", "/", "setUpDOM">>, <<".", "/", "cjs", "/", "react", ".", "production", ".", "min", ".", "js">>,
    <<"@react-native", "/", "assets-registry", "/", "registry">>, <<"react-native-vector-icons", "/", "Ionicons">>,
    <<".", "/", "missing">>, <<"expo-modules-core">>, <<"@", "/", "utils">>,
    <<"react-native-web", "/", "dist", "/", "exports", "/", "AppRegistry", "/", "AppContainer">> }

Origins ==
  { <<"/", "app", "/", "App", ".", "js">>, <<"/", "app", "/", "node_modules", "/", "react-native", "/", "Libraries", "/", "Core", "/", "InitializeCore", ".", "js">>,
    <<"/", "app", "/", "styles", ".", "css">> }

Options ==
  [ platform : Platforms, dev : BOOLEAN, environment : Environments,
    exporting : BOOLEAN, clientboundary : BOOLEAN ]

Context(opts, originModulePath, fileSystem) ==
  [ platform |-> opts.platform,
    dev |-> opts.dev,
    originModulePath |-> originModulePath,
    customResolverOptions |->
      [ environment |-> opts.environment, exporting |-> opts.exporting,
        clientboundary |-> opts.clientboundary ],
    preferNativePlatform |-> FALSE,
    resolveRequest |-> TRUE,
    fileSystem |-> fileSystem ]

\* tsconfig.json files: {"paths": {"@/*": ["src/*"]}}, {"paths": {}},
\* {"baseUrl": "/app/src"} and {"paths": {"fs": ["shims/fs"]}}.
AppTsConfigFile ==
  [present |-> TRUE, hasPaths |-> TRUE,
   paths |-> <<[prefix |-> <<"@">>, star |-> TRUE, target |-> <<"src">>]>>,
   hasBaseUrl |-> FALSE, baseUrl |-> NoPath]

EmptyPathsFile ==
  [present |-> TRUE, hasPaths |-> TRUE, paths |-> <<>>, hasBaseUrl |-> FALSE,
   baseUrl |-> NoPath]

BaseUrlOnlyFile ==
  [present |-> TRUE, hasPaths |-> FALSE, paths |-> <<>>, hasBaseUrl |-> TRUE,
   baseUrl |-> <<"/", "app", "/", "src">>]

ShimTsConfigFile ==
  [present |-> TRUE, hasPaths |-> TRUE,
   paths |-> <<[prefix |-> <<"fs">>, star |-> FALSE, target |-> <<"shims", "/", "fs">>]>>,
   hasBaseUrl |-> FALSE, baseUrl |-> NoPath]

\* {"paths": {"app-container":
\*   ["node_modules/react-native-web/dist/exports/AppRegistry/AppContainer"]}}
WebShimTsConfigFile ==
  [present |-> TRUE, hasPaths |-> TRUE,
   paths |-> <<[prefix |-> <<"app-container">>, star |-> FALSE,
                target |-> <<"node_modules", "/", "react-native-web", "/", "dist", "/",
                             "exports", "/", "AppRegistry", "/", "AppContainer">>]>>,
   hasBaseUrl |-> FALSE, baseUrl |-> NoPath]

TsConfigFiles ==
  { NoTsConfigFile, AppTsConfigFile, EmptyPathsFile, BaseUrlOnlyFile, ShimTsConfigFile }

TsConfigPaths == bindTsConfigPaths(AppTsConfigFile)

\* The pipeline's configuration: the default one and each option on its own.
config ==
  <<EXPO_BUNDLE_BUILT_IN, win32, isReactCanaryEnabled, isReactServerComponentsEnabled,
    numericIds, tsConfigResolve>>

\* The options of withExtendedResolver about tsconfig.json and its watcher.
tsSetup ==
  <<isTsconfigPathsEnabled, tsconfig, interactive, reloads, changes, loaded, tsconfigFile>>

DefaultConfig == <<FALSE, FALSE, FALSE, FALSE, FALSE, NoTsConfig>>

Configs ==
  { DefaultConfig,
    [DefaultConfig EXCEPT ![1] = TRUE],
    [DefaultConfig EXCEPT ![2] = TRUE],
    [DefaultConfig EXCEPT ![3] = TRUE],
    [DefaultConfig EXCEPT ![4] = TRUE],
    [DefaultConfig EXCEPT ![5] = TRUE],
    [DefaultConfig EXCEPT ![6] = TsConfigPaths] }

NoCall ==
  [ called |-> FALSE, moduleName |-> NoPath, context |-> Context(CHOOSE o \in Options : TRUE, NoPath, "ok"),
    tag |-> "none", res |-> NoResolution, err |-> NoError, by |-> "none", trace |-> <<>>,
    regs |-> <<>>, base |-> <<>>, ids |-> <<>>,
    tsConfigResolve |-> NoTsConfig, loaded |-> NoTsConfigFile, reloaded |-> FALSE,
    inFlight |-> {}, universalAliases |-> NoUniversalAliases ]

\* No reload has completed yet.
NotReloaded == [done |-> FALSE, file |-> NoTsConfigFile]

\* ------------------------------------------------------------------------
\* The serializer hooks: the builtin module-id factory and getPolyfills
\* ------------------------------------------------------------------------
\* getMetroServerRoot(config.projectRoot)
root == <<"/", "app">>

\* The static table of getModulePath, for the files of the model.
MAPPING ==
     <<"node_modules", "/", "react", "/", "index", ".", "js">> :> <<"react">>
  @@ <<"node_modules", "/", "scheduler", "/", "index", ".", "native", ".", "js">> :>
       <<"scheduler">>
  @@ <<"node_modules", "/", "foo", "/", "lib", "/", "main", ".", "js">> :> <<"foo-main">>

\* path.startsWith('\0')
isVirtualModule(path) == path # <<>> /\ Head(path) = NUL

\* p.replace(/\\/g, '/')
toPosixPath(p) == [i \in DOMAIN p |-> IF p[i] = "\\" THEN "/" ELSE p[i]]

isAbsolute(p) == p # <<>> /\ Head(p) = "/"

\* path.dirname
dirname(p) ==
  LET at == { i \in 1..Len(p) : p[i] = "/" }
      cut == CHOOSE i \in at : \A j \in at : j <= i
  IN  IF at = {} THEN <<".">>
      ELSE IF cut = 1 THEN <<"/">>
      ELSE SubSeq(p, 1, cut - 1)

\* path.join of a directory and a relative path
join(dir, rel) == IF dir = <<"/">> THEN dir \o rel ELSE dir \o <<"/">> \o rel

\* path.relative(from, to) for a path below from
relative(from, to) ==
  IF startsWith(to, from \o <<"/">>) THEN SubSeq(to, Len(from) + 2, Len(to)) ELSE to

\* A package.json: its name (NoPath when it declares none), whether it has
\* an exports field, and its entry fields (NoPath when absent).
Manifest(name, exports, reactNative, module, main) ==
  [name |-> name, exports |-> exports, reactNative |-> reactNative, module |-> module,
   main |-> main]

FooPackageJson ==
  Manifest(<<"foo">>, FALSE, NoPath, NoPath, <<".", "/", "index", ".", "js">>)

\* The package.json files foo may ship.
FooPackageJsons ==
  { Manifest(name, exports, reactNative, module, main) :
      name \in {<<"foo">>, NoPath}, exports \in BOOLEAN,
      reactNative \in {NoPath, <<".", "/", "index", ".", "native", ".", "js">>},
      module \in {NoPath, <<".", "/", "lib", "/", "main">>},
      main \in {NoPath, <<".", "/", "index", ".", "js">>, <<"index", ".", "js">>} }

fooRoot == <<"/", "app", "/", "node_modules", "/", "foo">>

\* A second copy of foo, installed below the package bar that depends on it.
nestedFooRoot ==
  <<"/", "app", "/", "node_modules", "/", "bar", "/", "node_modules", "/", "foo">>

\* The package.json files on disk, by directory; foo/lib holds one without
\* a name, and both copies of foo ship the same one.
PackageJsons(foo) ==
     <<"/", "app">> :> Manifest(<<"app">>, FALSE, NoPath, NoPath, <<".", "/", "index", ".", "js">>)
  @@ fooRoot :> foo
  @@ nestedFooRoot :> foo
  @@ join(fooRoot, <<"lib">>) :> Manifest(NoPath, FALSE, NoPath, NoPath, NoPath)
  @@ <<"/", "app", "/", "node_modules", "/", "scheduler">> :>
       Manifest(<<"scheduler">>, FALSE, NoPath, NoPath, <<".", "/", "index", ".", "js">>)

\* The source files on disk.
SourceFiles ==
  { <<"/", "app", "/", "index", ".", "js">>,
    join(fooRoot, <<"index", ".", "js">>),
    join(fooRoot, <<"index", ".", "native", ".", "js">>),
    join(fooRoot, <<"lib", "/", "main", ".", "js">>),
    join(fooRoot, <<"lib", "/", "util", ".", "js">>),
    join(nestedFooRoot, <<"index", ".", "js">>),
    <<"/", "app", "/", "node_modules", "/", "scheduler", "/", "index", ".", "js">>,
    <<"/", "app", "/", "node_modules", "/", "scheduler", "/", "index", ".", "native", ".", "js">> }

\* fs.statSync(p)?.isDirectory()
isDirectory(manifests, p) == p = <<"/">> \/ p \in DOMAIN manifests

\* findClosestPackageJson: the directory of the closest package.json at or
\* above a path, NoPath when there is none.
RECURSIVE closestPackageJsonDir(_, _)
closestPackageJsonDir(manifests, dir) ==
  IF dir \in DOMAIN manifests THEN dir
  ELSE IF dir = <<"/">> \/ dir = <<".">> THEN NoPath
  ELSE closestPackageJsonDir(manifests, dirname(dir))

findClosestPackageJson(manifests, from) ==
  closestPackageJsonDir(manifests, IF isDirectory(manifests, from) THEN from ELSE dirname(from))

\* findNearest: the directory of the nearest package.json that declares a
\* name, NoPath when there is none.
RECURSIVE findNearest(_, _)
findNearest(manifests, from) ==
  LET pkgRoot == findClosestPackageJson(manifests, from)
  IN  IF pkgRoot = NoPath THEN NoPath
      ELSE IF manifests[pkgRoot].name # NoPath THEN pkgRoot
      ELSE IF pkgRoot = <<"/">> THEN NoPath
      ELSE findNearest(manifests, dirname(pkgRoot))

\* resolveFrom.silent(moduleId, fromDirectory): require.resolve from that
\* directory, NoPath when it fails.  A specifier that is not relative names a
\* package of a node_modules directory, and the model has no such package.
resolveFromSilent(moduleId, fromDirectory) ==
  IF startsWith(moduleId, <<".", "/">>)
  THEN LET file == join(fromDirectory, SubSeq(moduleId, 3, Len(moduleId)))
       IN  IF file \in SourceFiles THEN file
           ELSE IF file \o <<".", "js">> \in SourceFiles THEN file \o <<".", "js">>
           ELSE IF join(file, <<"index", ".", "js">>) \in SourceFiles
           THEN join(file, <<"index", ".", "js">>)
           ELSE NoPath
  ELSE NoPath

\* pkg['react-native'] ?? pkg.module ?? pkg.main ?? 'index'
mainFieldOf(pkg) ==
  IF pkg.reactNative # NoPath THEN pkg.reactNative
  ELSE IF pkg.module # NoPath THEN pkg.module
  ELSE IF pkg.main # NoPath THEN pkg.main
  ELSE <<"index">>

\* The modulePath of a module the bundler has no path for.
NullPath == <<"null">>

\* getModulePath that prefixes every result.
getModulePathAlwaysPrefixed(manifests, modulePath, platform) ==
  IF modulePath = NullPath THEN <<"native", ":", "MODULE_NOT_FOUND">>
  ELSE IF isVirtualModule(modulePath) THEN <<"native", ":">> \o modulePath
  ELSE LET absPath == toPosixPath(IF isAbsolute(modulePath) THEN modulePath
                                  ELSE join(root, modulePath))
           relPath == toPosixPath(IF isAbsolute(modulePath) THEN relative(root, modulePath)
                                  ELSE modulePath)
           pkgRoot == findNearest(manifests, absPath)
           pkg == manifests[pkgRoot]
       IN  <<"native", ":">> \o
             (IF /\ pkgRoot # NoPath
                 /\ ~pkg.exports
                 /\ resolveFromSilent(mainFieldOf(pkg), pkgRoot) = absPath
              THEN pkg.name
              ELSE IF relPath \in DOMAIN MAPPING THEN MAPPING[relPath]
              ELSE relPath)

getModulePath(manifests, modulePath, platform) ==
  IF modulePath = NullPath THEN <<"MODULE_NOT_FOUND">>
  ELSE IF isVirtualModule(modulePath) THEN modulePath
  ELSE LET absPath == toPosixPath(IF isAbsolute(modulePath) THEN modulePath
                                  ELSE join(root, modulePath))
           relPath == toPosixPath(IF isAbsolute(modulePath) THEN relative(root, modulePath)
                                  ELSE modulePath)
           pkgRoot == findNearest(manifests, absPath)
           pkg == manifests[pkgRoot]
       IN  <<"native", ":">> \o
             (IF /\ pkgRoot # NoPath
                 /\ ~pkg.exports
                 /\ resolveFromSilent(mainFieldOf(pkg), pkgRoot) = absPath
              THEN pkg.name
              ELSE IF relPath \in DOMAIN MAPPING THEN MAPPING[relPath]
              ELSE relPath)

\* memoize(getModulePath): the cached id of the arguments when there is one.
memoizedGetModulePath(cache, manifests, modulePath, platform) ==
  IF <<modulePath, platform>> \in DOMAIN cache THEN cache[<<modulePath, platform>>]
  ELSE getModulePath(manifests, modulePath, platform)

\* The module paths the bundler asks an id for.
ModulePaths ==
  { join(fooRoot, <<"index", ".", "js">>),
    join(fooRoot, <<"lib", "/", "main", ".", "js">>),
    join(fooRoot, <<"lib", "/", "util", ".", "js">>),
    <<"node_modules", "/", "foo", "/", "index", ".", "js">>,
    join(nestedFooRoot, <<"index", ".", "js">>),
    <<"/", "app", "/", "node_modules", "/", "scheduler", "/", "index", ".", "js">>,
    <<"/", "app", "/", "node_modules", "/", "scheduler", "/", "index", ".", "native", ".", "js">>,
    join(fooRoot, <<"gone", ".", "js">>),
    <<NUL, "polyfill", ":", "assets-registry">>,
    NullPath }

NoIdCall == [called |-> FALSE, modulePath |-> NoPath, platform |-> "none", tag |-> "none",
             id |-> NoPath, err |-> NoError]

\* The polyfills the configuration's own getPolyfills returns.
originalGetPolyfills(platform) ==
  <<<<"/", "app", "/", "node_modules", "/", "@react-native", "/", "js-polyfills", "/",
      "console", ".", "js">>>>

\* require.resolve('@react-native/js-polyfills/error-guard')
errorGuard ==
  <<"/", "app", "/", "node_modules", "/", "@react-native", "/", "js-polyfills", "/",
    "error-guard", ".", "js">>

virtualEnvVarId == <<NUL, "polyfill", ":", "environment-variables">>

externalRequireId == <<NUL, "polyfill", ":", "external-require">>

\* The source getPolyfills generates for \0polyfill:external-require.
externalRequireContents(platform) ==
  IF platform = "web"
  THEN <<"global.$$require_external = typeof require !== \"undefined\" ? require ",
         ":", " () => null;">>
  ELSE <<"try { global.$$require_external = typeof expo === \"undefined\" ? require ",
         ":", " (moduleId) => { throw ... } } catch { ... }">>

\* What getPolyfills registers, in the order of its setVirtualModule calls.
polyfillRegistrations(platform) ==
  << Registration(virtualEnvVarId, <<"/", "/">>),
     Registration(externalRequireId, externalRequireContents(platform)) >>

\* What getPolyfills returns.
getPolyfills(platform) ==
  IF platform = "web" THEN <<externalRequireId, virtualEnvVarId, errorGuard>>
  ELSE IF EXPO_BUNDLE_BUILT_IN THEN originalGetPolyfills(platform)
  ELSE <<externalRequireId, virtualEnvVarId, errorGuard>>

NoPolyfillsCall == [called |-> FALSE, platform |-> "none", polyfills |-> <<>>]

\* ------------------------------------------------------------------------
\* Specification
\* ------------------------------------------------------------------------
Init ==
  /\ \E c \in Configs :
       /\ EXPO_BUNDLE_BUILT_IN = c[1]
       /\ win32 = c[2]
       /\ isReactCanaryEnabled = c[3]
       /\ isReactServerComponentsEnabled = c[4]
       /\ numericIds = c[5]
       /\ isTsconfigPathsEnabled = c[6].enabled
       /\ tsconfig = IF c[6].enabled THEN AppTsConfigFile ELSE NoTsConfigFile
  /\ tsConfigResolve = initialTsConfigResolve(isTsconfigPathsEnabled, tsconfig)
  /\ interactive = FALSE
  /\ reloads = {}
  /\ changes = 0
  /\ loaded = NotReloaded
  /\ tsconfigFile = tsconfig
  /\ universalAliases = NoUniversalAliases
  /\ virtualModules = <<>>
  /\ fileToIdMap = <<>>
  /\ options \in Options
  /\ (options.dev \/ config = DefaultConfig)
  /\ calls = 0
  /\ last = NoCall
  /\ packageJson = FooPackageJson
  /\ moduleIds = <<>>
  /\ lastId = NoIdCall
  /\ lastPolyfills = NoPolyfillsCall
  /\ serializerCalls = 0
  /\ externalRules = declaredRules
  /\ EXPO_METRO_NO_MAIN_FIELD_OVERRIDE = FALSE
  /\ sourceExts = DefaultSourceExts
  /\ nodejsSourceExtensions = NoNodejsSourceExtensions
  /\ lastMutated = NoMutation
  /\ logBox = NoLogBox
  /\ logBoxCalls = <<>>

\* One resolve call, from the Context Mutator to the returned Resolution or
\* the thrown error.
ResolveIn(maxCalls, moduleNames, origins, fileSystems) ==
  /\ calls < maxCalls
  /\ \E moduleName \in moduleNames, originModulePath \in origins, fileSystem \in fileSystems :
       \E context \in {Context(options, originModulePath, fileSystem)} :
         \E done \in {resolveRequest(virtualModules, fileToIdMap, context, moduleName,
                                     options.platform)} :
           /\ virtualModules' = setVirtualModules(virtualModules, done.regs)
           /\ fileToIdMap' = rememberIds(fileToIdMap, done.ids)
           /\ last' = [ called |-> TRUE, moduleName |-> moduleName, context |-> context,
                        tag |-> done.tag, res |-> done.res, err |-> done.err,
                        by |-> done.by, trace |-> done.trace, regs |-> done.regs,
                        base |-> done.base, ids |-> done.ids,
                        tsConfigResolve |-> tsConfigResolve, loaded |-> loaded.file,
                        reloaded |-> loaded.done, inFlight |-> reloads,
                        universalAliases |-> universalAliases ]
           /\ universalAliases' =
                universalAliasesAfter(universalAliases, done.trace, moduleName,
                                      options.platform)
  /\ calls' = calls + 1
  /\ nodejsSourceExtensions' =
       nodejsSourceExtensionsAfter(nodejsSourceExtensions, options.environment, sourceExts)
  /\ UNCHANGED <<config, options, tsSetup, serializer, installation, overlay, lastMutated>>

\* A resolve call of the bundle being built, the disk working or failing.
Resolve == ResolveIn(MaxCalls, Specifiers, Origins, {"ok", "EIO"})

Next == Resolve

Spec == Init /\ [][Next]_vars

\* ------------------------------------------------------------------------
\* Sequences of resolve calls across bundles
\* ------------------------------------------------------------------------
SeqSpecifiers ==
  { <<"fs">>, <<"node", ":", "fs">>, <<"react">>, <<"native", ":", "react">>, <<"react-dom">>,
    <<"react-dom", "/", "index">>, <<"debug">>,
    <<"@react-native", "/", "assets-registry", "/", "registry">> }

SeqOrigins == { <<"/", "app", "/", "App", ".", "js">> }

\* The bundler starts a graph for another platform or environment.
BeginBundle ==
  /\ calls < MaxSeqCalls
  /\ options' \in Options
  /\ options' # options
  /\ last' = NoCall
  /\ UNCHANGED <<config, tsSetup, universalAliases, virtualModules, fileToIdMap, calls,
                 serializer, installation, overlay, nodejsSourceExtensions, lastMutated>>

ResolveSeq == ResolveIn(MaxSeqCalls, SeqSpecifiers, SeqOrigins, {"ok"})

NextSeq == BeginBundle \/ ResolveSeq

SpecSeq == Init /\ [][NextSeq]_vars

\* ------------------------------------------------------------------------
\* Resolve calls of a development server: aliases and the later strategies
\* ------------------------------------------------------------------------
AliasSpecifiers ==
  { <<"react-native">>, <<"react-native", "/", "index">>,
    <<"react-native", "/", "Libraries", "/", "Image", "/", "resolveAssetSource">>,
    <<"react-native-vector-icons">>, <<"react-native-vector-icons", "/", "Ionicons">>,
    <<"expo-router">>, <<"url">>, <<"fs">>,
    <<"react-native", "/", "Libraries", "/", "Utilities", "/", "codegenNativeCommands">> }

AliasOrigins ==
  { <<"/", "app", "/", "App", ".", "js">>,
    <<"/", "app", "/", "node_modules", "/", "react-native", "/", "Libraries", "/", "Core",
      "/", "InitializeCore", ".", "js">> }

ResolveAlias == ResolveIn(MaxAliasCalls, AliasSpecifiers, AliasOrigins, {"ok"})

NextAlias == ResolveAlias

SpecAlias == Init /\ [][NextAlias]_vars

\* ------------------------------------------------------------------------
\* Resolve calls whose specifier an alias or a path mapping replaces
\* ------------------------------------------------------------------------
ReplacedSpecifiers ==
  { <<"react-native">>, <<"react-native-vector-icons", "/", "Ionicons">>, <<"@", "/", "utils">>,
    <<"fs">>, <<"debug">>, <<".", "/", "missing">> }

ResolveReplaced ==
  ResolveIn(MaxAliasCalls, ReplacedSpecifiers, {<<"/", "app", "/", "App", ".", "js">>},
            {"ok", "EIO"})

NextReplaced == ResolveReplaced

SpecReplaced == Init /\ [][NextReplaced]_vars

\* ------------------------------------------------------------------------
\* Resolve calls that reach the post-resolution rewrites
\* ------------------------------------------------------------------------
PostSpecifiers ==
  { <<"react-native-web", "/", "dist", "/", "exports", "/", "AppRegistry", "/", "AppContainer">>,
    <<"react-native", "/", "Libraries", "/", "Core", "/", "InitializeCore">>,
    <<"react-native", "/", "Libraries", "/", "Renderer", "/", "shims", "/", "ReactNative">>,
    <<"react">>, <<".", "/", "missing">> }

PostOrigins == { <<"/", "app", "/", "App", ".", "js">> }

ResolvePost == ResolveIn(MaxPostCalls, PostSpecifiers, PostOrigins, {"ok"})

NextPost == ResolvePost

SpecPost == Init /\ [][NextPost]_vars

\* ------------------------------------------------------------------------
\* A development server that watches tsconfig.json
\* ------------------------------------------------------------------------
TsSpecifiers == { <<"fs">>, <<"buffer">>, <<"@", "/", "utils">>, <<"utils">> }

\* What tsconfig.json may hold when it is read again.
ReloadFiles == { AppTsConfigFile, BaseUrlOnlyFile, EmptyPathsFile }

TsOrigins == { <<"/", "app", "/", "App", ".", "js">> }

TsOptions ==
  { o \in Options : o.dev /\ ~o.exporting /\ ~o.clientboundary
                       /\ o.environment \in {"undefined", "node"} }

InitTs ==
  /\ EXPO_BUNDLE_BUILT_IN = FALSE
  /\ win32 = FALSE
  /\ isReactCanaryEnabled = FALSE
  /\ isReactServerComponentsEnabled = FALSE
  /\ numericIds = FALSE
  /\ isTsconfigPathsEnabled \in BOOLEAN
  /\ tsconfig \in TsConfigFiles
  /\ tsConfigResolve = initialTsConfigResolve(isTsconfigPathsEnabled, tsconfig)
  /\ interactive \in BOOLEAN
  /\ reloads = {}
  /\ changes = 0
  /\ loaded = NotReloaded
  /\ tsconfigFile = tsconfig
  /\ universalAliases = NoUniversalAliases
  /\ virtualModules = <<>>
  /\ fileToIdMap = <<>>
  /\ options \in TsOptions
  /\ calls = 0
  /\ last = NoCall
  /\ packageJson = FooPackageJson
  /\ moduleIds = <<>>
  /\ lastId = NoIdCall
  /\ lastPolyfills = NoPolyfillsCall
  /\ serializerCalls = 0
  /\ externalRules = declaredRules
  /\ EXPO_METRO_NO_MAIN_FIELD_OVERRIDE = FALSE
  /\ sourceExts = DefaultSourceExts
  /\ nodejsSourceExtensions = NoNodejsSourceExtensions
  /\ lastMutated = NoMutation
  /\ logBox = NoLogBox
  /\ logBoxCalls = <<>>

\* What the watcher and its reloads leave alone.
pipeline ==
  <<EXPO_BUNDLE_BUILT_IN, win32, isReactCanaryEnabled, isReactServerComponentsEnabled,
    numericIds, isTsconfigPathsEnabled, tsconfig, interactive, universalAliases,
    virtualModules, fileToIdMap, options, calls, last>>

\* configWatcher's callback: tsconfig.json or jsconfig.json changed and
\* loadTsConfigPathsAsync starts reading it.  The watcher exists only when
\* not exporting, interactive and with tsconfig paths enabled.
ChangeNotification ==
  /\ interactive
  /\ isTsconfigPathsEnabled
  /\ changes < MaxChanges
  /\ \E file \in ReloadFiles :
       /\ tsconfigFile' = file
       /\ reloads' = reloads \cup {file}
  /\ changes' = changes + 1
  /\ UNCHANGED <<pipeline, tsConfigResolve, loaded, serializer, installation, overlay,
                 nodejsSourceExtensions, lastMutated>>

\* The then-callback of a load: it replaces tsConfigResolve.
ReloadCompletes ==
  /\ \E file \in reloads :
       /\ tsConfigResolve' = reloadedTsConfigResolve(file)
       /\ reloads' = reloads \ {file}
       /\ loaded' = [done |-> TRUE, file |-> file]
  /\ UNCHANGED <<pipeline, changes, tsconfigFile, serializer, installation, overlay, nodejsSourceExtensions,
                 lastMutated>>

ResolveTs == ResolveIn(MaxTsCalls, TsSpecifiers, TsOrigins, {"ok"})

NextTs == ChangeNotification \/ ReloadCompletes \/ ResolveTs

SpecTs == InitTs /\ [][NextTs]_vars

\* ------------------------------------------------------------------------
\* Resolve calls of a project whose tsconfig maps a name into react-native-web
\* ------------------------------------------------------------------------
ShimSpecifiers ==
  { <<"app-container">>,
    <<"react-native-web", "/", "dist", "/", "exports", "/", "AppRegistry", "/", "AppContainer">>,
    <<"react-native">>, <<"react">>, <<".", "/", "missing">> }

ShimOrigins == { <<"/", "app", "/", "App", ".", "js">> }

InitShim ==
  /\ EXPO_BUNDLE_BUILT_IN = FALSE
  /\ win32 = FALSE
  /\ isReactCanaryEnabled = FALSE
  /\ isReactServerComponentsEnabled = FALSE
  /\ numericIds = FALSE
  /\ isTsconfigPathsEnabled \in BOOLEAN
  /\ tsconfig \in {NoTsConfigFile, WebShimTsConfigFile}
  /\ tsConfigResolve = initialTsConfigResolve(isTsconfigPathsEnabled, tsconfig)
  /\ interactive = FALSE
  /\ reloads = {}
  /\ changes = 0
  /\ loaded = NotReloaded
  /\ tsconfigFile = tsconfig
  /\ universalAliases = NoUniversalAliases
  /\ virtualModules = <<>>
  /\ fileToIdMap = <<>>
  /\ options \in TsOptions
  /\ calls = 0
  /\ last = NoCall
  /\ packageJson = FooPackageJson
  /\ moduleIds = <<>>
  /\ lastId = NoIdCall
  /\ lastPolyfills = NoPolyfillsCall
  /\ serializerCalls = 0
  /\ externalRules = declaredRules
  /\ EXPO_METRO_NO_MAIN_FIELD_OVERRIDE = FALSE
  /\ sourceExts = DefaultSourceExts
  /\ nodejsSourceExtensions = NoNodejsSourceExtensions
  /\ lastMutated = NoMutation
  /\ logBox = NoLogBox
  /\ logBoxCalls = <<>>

ResolveShim == ResolveIn(MaxShimCalls, ShimSpecifiers, ShimOrigins, {"ok"})

NextShim == ResolveShim

SpecShim == InitShim /\ [][NextShim]_vars

\* ------------------------------------------------------------------------
\* Resolve calls under a rule table that may be misconfigured
\* ------------------------------------------------------------------------
\* The table as declared, and tables in which one rule declares another
\* replace kind: `empty`, or the kind `alias` that the loop does not know.
RuleTables ==
  { declaredRules,
    [declaredRules EXCEPT ![1].replace = "alias"],
    [declaredRules EXCEPT ![2].replace = "alias"],
    [declaredRules EXCEPT ![3].replace = "alias"],
    [declaredRules EXCEPT ![2].replace = "empty"] }

RuleSpecifiers == { <<"fs">>, <<"react">>, <<"react-dom">>, <<"debug">> }

RuleOrigins == { <<"/", "app", "/", "App", ".", "js">> }

InitRules ==
  /\ EXPO_BUNDLE_BUILT_IN = FALSE
  /\ win32 = FALSE
  /\ isReactCanaryEnabled \in BOOLEAN
  /\ isReactServerComponentsEnabled = FALSE
  /\ numericIds = FALSE
  /\ isTsconfigPathsEnabled = FALSE
  /\ tsconfig = NoTsConfigFile
  /\ tsConfigResolve = NoTsConfig
  /\ interactive = FALSE
  /\ reloads = {}
  /\ changes = 0
  /\ loaded = NotReloaded
  /\ tsconfigFile = tsconfig
  /\ universalAliases = NoUniversalAliases
  /\ virtualModules = <<>>
  /\ fileToIdMap = <<>>
  /\ options \in { o \in Options : o.dev /\ ~o.exporting }
  /\ calls = 0
  /\ last = NoCall
  /\ packageJson = FooPackageJson
  /\ moduleIds = <<>>
  /\ lastId = NoIdCall
  /\ lastPolyfills = NoPolyfillsCall
  /\ serializerCalls = 0
  /\ externalRules \in RuleTables
  /\ EXPO_METRO_NO_MAIN_FIELD_OVERRIDE = FALSE
  /\ sourceExts = DefaultSourceExts
  /\ nodejsSourceExtensions = NoNodejsSourceExtensions
  /\ lastMutated = NoMutation
  /\ logBox = NoLogBox
  /\ logBoxCalls = <<>>

ResolveRules == ResolveIn(MaxRuleCalls, RuleSpecifiers, RuleOrigins, {"ok"})

NextRules == ResolveRules

SpecRules == InitRules /\ [][NextRules]_vars

\* ------------------------------------------------------------------------
\* Resolve calls of weak externals, across bundles
\* ------------------------------------------------------------------------
WeakSpecifiers ==
  { <<"react-dom">>, <<"react-dom", "/", "index">>, <<"react-native">>, <<"debug">> }

WeakOrigins == { <<"/", "app", "/", "App", ".", "js">> }

InitWeak ==
  /\ EXPO_BUNDLE_BUILT_IN \in BOOLEAN
  /\ win32 = FALSE
  /\ isReactCanaryEnabled = FALSE
  /\ isReactServerComponentsEnabled = FALSE
  /\ numericIds \in BOOLEAN
  /\ isTsconfigPathsEnabled = FALSE
  /\ tsconfig = NoTsConfigFile
  /\ tsConfigResolve = NoTsConfig
  /\ interactive = FALSE
  /\ reloads = {}
  /\ changes = 0
  /\ loaded = NotReloaded
  /\ tsconfigFile = tsconfig
  /\ universalAliases = NoUniversalAliases
  /\ virtualModules = <<>>
  /\ fileToIdMap = <<>>
  /\ options \in { o \in Options : o.dev /\ ~o.exporting /\ o.clientboundary }
  /\ calls = 0
  /\ last = NoCall
  /\ packageJson = FooPackageJson
  /\ moduleIds = <<>>
  /\ lastId = NoIdCall
  /\ lastPolyfills = NoPolyfillsCall
  /\ serializerCalls = 0
  /\ externalRules = declaredRules
  /\ EXPO_METRO_NO_MAIN_FIELD_OVERRIDE = FALSE
  /\ sourceExts = DefaultSourceExts
  /\ nodejsSourceExtensions = NoNodejsSourceExtensions
  /\ lastMutated = NoMutation
  /\ logBox = NoLogBox
  /\ logBoxCalls = <<>>

\* The bundler starts a graph for another platform or environment.
BeginWeakBundle ==
  /\ calls < MaxWeakCalls
  /\ options' \in { o \in Options : o.dev /\ ~o.exporting /\ o.clientboundary }
  /\ options' # options
  /\ last' = NoCall
  /\ UNCHANGED <<config, tsSetup, universalAliases, virtualModules, fileToIdMap, calls,
                 serializer, installation, overlay, nodejsSourceExtensions, lastMutated>>

ResolveWeak == ResolveIn(MaxWeakCalls, WeakSpecifiers, WeakOrigins, {"ok"})

NextWeak == BeginWeakBundle \/ ResolveWeak

SpecWeak == InitWeak /\ [][NextWeak]_vars

\* ------------------------------------------------------------------------
\* Calls of the Context Mutator
\* ------------------------------------------------------------------------
\* The longest list of source extensions of a configuration.
MaxExts == 3

Exts == { <<"js">>, <<"jsx">>, <<"mjs">>, <<"ios", ".", "mjs">>, <<"json">>, <<"ts">> }

\* The lists of distinct extensions of at most MaxExts entries.
SourceExtsLists ==
  UNION { { exts \in [1..n -> Exts] : \A i, j \in 1..n : exts[i] = exts[j] => i = j }
          : n \in 0..MaxExts }

\* resolverMainFields as the bundler hands them to a resolve call.
MainFieldsLists == { <<"react-native", "browser", "main">>, <<"main">> }

ContextSpecifiers == { <<"react">>, <<"debug">> }

\* The context the bundler hands to the wrapped resolveRequest.
CallerContext(opts, originModulePath, mainFields) ==
  [ platform |-> opts.platform,
    dev |-> opts.dev,
    originModulePath |-> originModulePath,
    customResolverOptions |->
      [ environment |-> opts.environment, exporting |-> opts.exporting,
        clientboundary |-> opts.clientboundary ],
    preferNativePlatform |-> FALSE,
    resolveRequest |-> TRUE,
    fileSystem |-> "ok",
    sourceExts |-> sourceExts,
    mainFields |-> mainFields,
    unstable_conditionNames |-> <<"require", "import">>,
    unstable_enablePackageExports |-> FALSE,
    unstable_conditionsByPlatform |-> <<"browser">>,
    disableHierarchicalLookup |-> TRUE ]

InitContext ==
  /\ EXPO_BUNDLE_BUILT_IN = FALSE
  /\ win32 = FALSE
  /\ isReactCanaryEnabled \in BOOLEAN
  /\ isReactServerComponentsEnabled = FALSE
  /\ numericIds = FALSE
  /\ isTsconfigPathsEnabled = FALSE
  /\ tsconfig = NoTsConfigFile
  /\ tsConfigResolve = NoTsConfig
  /\ interactive = FALSE
  /\ reloads = {}
  /\ changes = 0
  /\ loaded = NotReloaded
  /\ tsconfigFile = tsconfig
  /\ universalAliases = NoUniversalAliases
  /\ virtualModules = <<>>
  /\ fileToIdMap = <<>>
  /\ options \in { o \in Options : o.dev /\ ~o.exporting /\ ~o.clientboundary }
  /\ calls = 0
  /\ last = NoCall
  /\ packageJson = FooPackageJson
  /\ moduleIds = <<>>
  /\ lastId = NoIdCall
  /\ lastPolyfills = NoPolyfillsCall
  /\ serializerCalls = 0
  /\ externalRules = declaredRules
  /\ EXPO_METRO_NO_MAIN_FIELD_OVERRIDE \in BOOLEAN
  /\ sourceExts \in SourceExtsLists
  /\ nodejsSourceExtensions = NoNodejsSourceExtensions
  /\ lastMutated = NoMutation
  /\ logBox = NoLogBox
  /\ logBoxCalls = <<>>

\* One call of the callback of withMetroMutatedResolverContext.
MutateContext ==
  /\ calls < MaxContextCalls
  /\ \E moduleName \in ContextSpecifiers, mainFields \in MainFieldsLists :
       \E immutableContext \in {CallerContext(options, <<"/", "app", "/", "App", ".", "js">>,
                                              mainFields)} :
         \E done \in {mutateContext(immutableContext, moduleName, options.platform,
                                    nodejsSourceExtensions)} :
           /\ lastMutated' = [called |-> TRUE, moduleName |-> moduleName,
                              platform |-> options.platform, before |-> immutableContext,
                              after |-> done.caller, context |-> done.context]
           /\ nodejsSourceExtensions' = done.cache
  /\ calls' = calls + 1
  /\ UNCHANGED <<config, options, tsSetup, serializer, installation, overlay, universalAliases,
                 virtualModules, fileToIdMap, last>>

NextContext == MutateContext

SpecContext == InitContext /\ [][NextContext]_vars

\* ------------------------------------------------------------------------
\* Calls of the Context Mutator with the source extensions of each call
\* ------------------------------------------------------------------------
\* The sourceExts a resolve call may come in with.
CallSourceExts ==
  { << <<"mjs">>, <<"js">> >>, << <<"js">>, <<"mjs">>, <<"ts">> >>, << <<"ts">> >> }

CallOptions ==
  { o \in Options : o.dev /\ ~o.exporting /\ ~o.clientboundary }

InitCache ==
  /\ InitContext
  /\ ~isReactCanaryEnabled
  /\ ~EXPO_METRO_NO_MAIN_FIELD_OVERRIDE
  /\ sourceExts \in CallSourceExts

\* One call of the Context Mutator for a graph of any platform and
\* environment, with the sourceExts of the call.
MutateContextOfCall ==
  /\ calls < MaxContextCalls
  /\ \E opts \in CallOptions, srcExts \in CallSourceExts :
       \E immutableContext \in
            {[CallerContext(opts, <<"/", "app", "/", "App", ".", "js">>, <<"main">>)
                EXCEPT !.sourceExts = srcExts]} :
         \E done \in {mutateContext(immutableContext, <<"debug">>, opts.platform,
                                    nodejsSourceExtensions)} :
           /\ options' = opts
           /\ lastMutated' = [called |-> TRUE, moduleName |-> <<"debug">>,
                              platform |-> opts.platform, before |-> immutableContext,
                              after |-> done.caller, context |-> done.context]
           /\ nodejsSourceExtensions' = done.cache
  /\ calls' = calls + 1
  /\ UNCHANGED <<config, tsSetup, serializer, installation, overlay, universalAliases,
                 virtualModules, fileToIdMap, last>>

NextCache == MutateContextOfCall

SpecCache == InitCache /\ [][NextCache]_vars

\* ------------------------------------------------------------------------
\* The error overlay: LogBox and console.error
\* ------------------------------------------------------------------------
InitLogBox ==
  /\ Init
  /\ config = DefaultConfig
  /\ options = [ platform |-> "web", dev |-> TRUE, environment |-> "undefined",
                 exporting |-> FALSE, clientboundary |-> FALSE ]

Install ==
  /\ Len(logBoxCalls) < MaxLogBoxCalls
  /\ logBox' = install(logBox)
  /\ logBoxCalls' = Append(logBoxCalls, LogBoxCall("install", logBox, logBox', <<>>))
  /\ UNCHANGED bundler

Uninstall ==
  /\ Len(logBoxCalls) < MaxLogBoxCalls
  /\ logBox' = uninstall(logBox)
  /\ logBoxCalls' = Append(logBoxCalls, LogBoxCall("uninstall", logBox, logBox', <<>>))
  /\ UNCHANGED bundler

Decorate ==
  /\ Len(logBoxCalls) < MaxLogBoxCalls
  /\ logBox' = decorate(logBox)
  /\ logBoxCalls' = Append(logBoxCalls, LogBoxCall("decorate", logBox, logBox', <<>>))
  /\ UNCHANGED bundler

\* Some code calls console.error(...).
ConsoleError ==
  /\ Len(logBoxCalls) < MaxLogBoxCalls
  /\ logBox' = logBox
  /\ logBoxCalls' =
       Append(logBoxCalls,
              LogBoxCall("console.error", logBox, logBox,
                         handlersOf(logBox.consoleError, logBox)))
  /\ UNCHANGED bundler

NextLogBox == Install \/ Uninstall \/ Decorate \/ ConsoleError

SpecLogBox == InitLogBox /\ [][NextLogBox]_vars

\* ------------------------------------------------------------------------
\* The serializer of a development server
\* ------------------------------------------------------------------------
InitSerializer ==
  /\ EXPO_BUNDLE_BUILT_IN \in BOOLEAN
  /\ win32 = FALSE
  /\ isReactCanaryEnabled = FALSE
  /\ isReactServerComponentsEnabled = FALSE
  /\ numericIds = FALSE
  /\ isTsconfigPathsEnabled = FALSE
  /\ tsconfig = NoTsConfigFile
  /\ tsConfigResolve = NoTsConfig
  /\ interactive = FALSE
  /\ reloads = {}
  /\ changes = 0
  /\ loaded = NotReloaded
  /\ tsconfigFile = tsconfig
  /\ universalAliases = NoUniversalAliases
  /\ virtualModules = <<>>
  /\ fileToIdMap = <<>>
  /\ options \in { o \in Options : o.dev /\ ~o.exporting /\ ~o.clientboundary
                                      /\ o.environment = "undefined" /\ o.platform = "ios" }
  /\ calls = 0
  /\ last = NoCall
  /\ packageJson \in FooPackageJsons
  /\ moduleIds = <<>>
  /\ lastId = NoIdCall
  /\ lastPolyfills = NoPolyfillsCall
  /\ serializerCalls = 0
  /\ externalRules = declaredRules
  /\ EXPO_METRO_NO_MAIN_FIELD_OVERRIDE = FALSE
  /\ sourceExts = DefaultSourceExts
  /\ nodejsSourceExtensions = NoNodejsSourceExtensions
  /\ lastMutated = NoMutation
  /\ logBox = NoLogBox
  /\ logBoxCalls = <<>>

\* What the serializer hooks leave alone.
resolverState ==
  <<EXPO_BUNDLE_BUILT_IN, win32, isReactCanaryEnabled, isReactServerComponentsEnabled,
    numericIds, tsConfigResolve, isTsconfigPathsEnabled, tsconfig, interactive, reloads,
    changes, loaded, tsconfigFile, universalAliases, fileToIdMap, options, calls, last,
    externalRules, EXPO_METRO_NO_MAIN_FIELD_OVERRIDE, sourceExts, nodejsSourceExtensions,
    lastMutated, logBox, logBoxCalls>>

\* One call of the module-id factory createBuiltinModuleIdFactory returned;
\* the factory exists only with EXPO_BUNDLE_BUILT_IN.
CreateModuleId ==
  /\ EXPO_BUNDLE_BUILT_IN
  /\ serializerCalls < MaxSerializerCalls
  /\ \E modulePath \in ModulePaths, platform \in {"ios", "web", "none"} :
       IF platform = "none"
       THEN /\ lastId' = [called |-> TRUE, modulePath |-> modulePath, platform |-> platform,
                           tag |-> "throw", id |-> NoPath,
                           err |-> [class |-> "Error",
                                    about |-> <<"createStableModuleIdFactory", ":",
                                                " context", ".", "platform is required">>]]
            /\ moduleIds' = moduleIds
       ELSE \E id \in {memoizedGetModulePath(moduleIds, PackageJsons(packageJson),
                                              modulePath, platform)} :
              /\ lastId' = [called |-> TRUE, modulePath |-> modulePath,
                             platform |-> platform, tag |-> "return", id |-> id,
                             err |-> NoError]
              /\ moduleIds' = (<<modulePath, platform>> :> id) @@ moduleIds
  /\ serializerCalls' = serializerCalls + 1
  /\ UNCHANGED <<resolverState, virtualModules, packageJson, lastPolyfills>>

\* One call of config.serializer.getPolyfills.
GetPolyfills ==
  /\ serializerCalls < MaxSerializerCalls
  /\ \E platform \in {"web", "ios"} :
       /\ virtualModules' = setVirtualModules(virtualModules, polyfillRegistrations(platform))
       /\ lastPolyfills' = [called |-> TRUE, platform |-> platform,
                             polyfills |-> getPolyfills(platform)]
  /\ serializerCalls' = serializerCalls + 1
  /\ UNCHANGED <<resolverState, packageJson, moduleIds, lastId>>

NextSerializer == CreateModuleId \/ GetPolyfills

SpecSerializer == InitSerializer /\ [][NextSerializer]_vars

\* ------------------------------------------------------------------------
\* Properties
\* ------------------------------------------------------------------------
\* The context the strategies of the last call received.
lastContext == withMutatedContext(last.context, last.moduleName, last.context.platform)

\* What a strategy does on the inputs of the last call.
lastStrategy(name) ==
  runStrategy(name, virtualModules, fileToIdMap, lastContext, last.moduleName,
              last.context.platform)

\* The registry without the ids the last call registered, and what a
\* strategy does on the inputs of the last call with that registry.
registryBeforeLast ==
  [ id \in (DOMAIN virtualModules) \ { last.regs[r].id : r \in 1..Len(last.regs) }
      |-> virtualModules[id] ]

lastStrategyBefore(name) ==
  runStrategy(name, registryBeforeLast, fileToIdMap, lastContext, last.moduleName,
              last.context.platform)

isVirtualId(filePath) == filePath # <<>> /\ Head(filePath) = NUL

isVirtualKind(filePath, kind) == startsWith(filePath, <<NUL, kind, ":">>)

\* C1: every resolve call consults the strategies in the one fixed order (dev
\* production-react mock, tsconfig paths, Node externals, custom externals,
\* alias, asset-registry polyfill, sticky resolver, post-resolution rewriter,
\* fallback resolver); every strategy consulted before the last one returned
\* null and registered nothing, the call's result is the result of the last
\* one consulted, and no later strategy ran.
FixedOrder ==
  << "requestDevMockProdReact", "requestTsconfigPaths", "requestNodeExternals",
     "requestCustomExternals", "requestAlias", "requestStableAssetRegistry",
     "requestStickyModule", "requestPostRewrites", "requestFallbackModule" >>

C1_FirstNonNullWins ==
  last.called =>
    /\ Len(last.trace) <= Len(FixedOrder)
    /\ last.trace = SubSeq(FixedOrder, 1, Len(last.trace))
    /\ \A i \in 1..(Len(last.trace) - 1) :
         /\ lastStrategy(last.trace[i]).tag = "null"
         /\ lastStrategy(last.trace[i]).regs = <<>>
    /\ last.by # "upstream" =>
         /\ last.by = last.trace[Len(last.trace)]
         /\ last.tag # "null"
         /\ last.tag = lastStrategy(last.by).tag
         /\ last.res = lastStrategy(last.by).res
         /\ last.err = lastStrategy(last.by).err
         /\ last.regs = lastStrategyBefore(last.by).regs
    /\ last.by = "upstream" => last.trace = FixedOrder

\* A call that the fourth strategy ended with a registered virtual module,
\* after three strategies returned null.
C1_Witness ==
  /\ last.called
  /\ last.by = "requestCustomExternals"
  /\ last.tag = "return"
  /\ Len(last.trace) = 4
  /\ last.regs # <<>>

\* C2: a strategy that registers a virtual id already in the registry
\* registers the content the registry already holds for it.
C2_NoOverwrite ==
  [][ \A r \in 1..Len(last'.regs) :
        last'.regs[r].id \in DOMAIN virtualModules =>
          virtualModules[last'.regs[r].id] = last'.regs[r].contents ]_vars

\* C3: a returned sourceFile whose filePath begins with the sentinel names an
\* id that is in the registry when the call returns.
C3_RegisteredBeforeReturn ==
  (last.called /\ last.tag = "return" /\ last.res.type = "sourceFile"
     /\ isVirtualId(last.res.filePath))
    => last.res.filePath \in DOMAIN virtualModules

\* A call that returned a virtual module.
C3_Witness ==
  /\ last.called
  /\ last.tag = "return"
  /\ last.res.type = "sourceFile"
  /\ isVirtualId(last.res.filePath)
  /\ last.res.filePath \in DOMAIN virtualModules

\* The specifiers a strategy may hand to an internal resolve.
InternalNames ==
  Specifiers \cup DOMAIN Disk
    \cup { aliases[p][n] : <<p, n>> \in { <<p, n>> \in {"web"} \X Specifiers :
                                           n \in DOMAIN aliases[p] } }

isResolutionClass(error) ==
  error.class \in {"FailedToResolveNameError", "FailedToResolvePathError"}

\* C4: the optional resolver returns null exactly when the strict resolver
\* throws a resolution-class error; it returns the Resolution the strict
\* resolver returns and throws the other errors the strict resolver throws.
C4_OptionalIsStrictButResolutionErrors ==
  last.called =>
    \A m \in InternalNames :
      LET strict == getStrictResolver(lastContext, last.context.platform, m)
          optional == getOptionalResolver(lastContext, last.context.platform, m)
      IN  /\ optional.tag = "null" <=> (strict.tag = "throw" /\ isResolutionClass(strict.err))
          /\ strict.tag = "return" => (optional.tag = "return" /\ optional.res = strict.res)
          /\ (strict.tag = "throw" /\ ~isResolutionClass(strict.err))
               => (optional.tag = "throw" /\ optional.err = strict.err)

\* A call whose optional resolve swallowed a resolution-class error: the Node
\* external strategy stubbed an unresolvable built-in on web.
C4_Witness ==
  /\ last.called
  /\ last.by = "requestNodeExternals"
  /\ last.res = EmptyResolution
  /\ last.base = <<last.moduleName>>
  /\ getStrictResolver(lastContext, last.context.platform, last.moduleName).tag = "throw"

\* The strategies that make internal resolve calls.
ResolvingStrategies ==
  { "requestTsconfigPaths", "requestNodeExternals", "requestCustomExternals",
    "requestAlias", "requestPostRewrites" }

\* C5: when the base resolver throws an error that is not resolution-class
\* during an internal resolve of a strategy, the strategy throws that error
\* and registers nothing; the resolve call ends with that error.
C5_OtherErrorsPropagate ==
  (last.called /\ last.context.fileSystem = "EIO") =>
    /\ \A name \in ResolvingStrategies :
         lastStrategy(name).base # <<>> =>
           /\ lastStrategy(name).tag = "throw"
           /\ lastStrategy(name).err = [class |-> "Error", about |-> lastStrategy(name).base[1]]
           /\ lastStrategy(name).regs = <<>>
    /\ last.base # <<>> =>
         /\ last.tag = "throw"
         /\ last.err = [class |-> "Error", about |-> last.base[1]]

\* A call whose optional resolve met a failing disk in the Node external
\* strategy and ended with that error.
C5_Witness ==
  /\ last.called
  /\ last.context.fileSystem = "EIO"
  /\ last.by = "requestNodeExternals"
  /\ last.tag = "throw"
  /\ last.err.class = "Error"

lastOptions == last.context.customResolverOptions

lastRegisters(kind) ==
  \E r \in 1..Len(last.regs) : isVirtualKind(last.regs[r].id, kind)

isStylesheet(originModulePath) ==
  \/ endsWith(originModulePath, <<".", "css">>)
  \/ endsWith(originModulePath, <<".", "scss">>)
  \/ endsWith(originModulePath, <<".", "sass">>)

\* Specifiers that match both the builtin and the weak rule.
BuiltinAndWeak ==
  { <<"react">>, <<"scheduler">>, <<"react-native">>, <<"react", "/", "jsx-dev-runtime">> }

\* A call for such a specifier in a non-exporting client-boundary client
\* environment with the built-in bundling mode off.
C6_Case ==
  /\ last.called
  /\ last.moduleName \in BuiltinAndWeak
  /\ ~lastOptions.exporting
  /\ lastOptions.clientboundary
  /\ lastOptions.environment \notin {"node", "react-server"}
  /\ ~EXPO_BUNDLE_BUILT_IN

C6_BuiltinResult ==
  /\ last.tag = "return"
  /\ last.by = "requestCustomExternals"
  /\ last.res = SourceFile(<<NUL, "native", ":">> \o last.moduleName)
  /\ Len(last.regs) = 1
  /\ last.regs[1].id = <<NUL, "native", ":">> \o last.moduleName
  /\ ~lastRegisters("weak")
  /\ last.base = <<>>

C7_Original ==
  (last.called /\ (lastOptions.environment \in {"node", "react-server"}
                     \/ lastOptions.exporting))
    => ~matchNode(lastContext, last.moduleName).match

\* C7: the node rule applies only in a server environment and only when not
\* exporting: in a client environment, or when exporting, no specifier is
\* classified node and the custom external strategy returns no \0node: module.
C7_NodeRuleOnlyOnServer ==
  (last.called /\ (lastOptions.environment \notin {"node", "react-server"}
                     \/ lastOptions.exporting))
    => /\ ~matchNode(lastContext, last.moduleName).match
       /\ ~(last.by = "requestCustomExternals" /\ isVirtualKind(last.res.filePath, "node"))

\* An exporting server call for a specifier of the node allow-list: the
\* rules were tried and the call returned the real file.
C7_Witness ==
  /\ last.called
  /\ lastOptions.exporting
  /\ lastOptions.environment = "node"
  /\ last.moduleName = <<"debug">>
  /\ Len(last.trace) > 4
  /\ last.tag = "return"
  /\ ~isVirtualId(last.res.filePath)

C9_WeakOnlyForClientBoundary ==
  (last.called
     /\ \/ matchWeak(lastContext, last.moduleName, last.context.platform).match
        \/ isVirtualKind(last.res.filePath, "weak")
        \/ lastRegisters("weak"))
    => /\ lastOptions.clientboundary
       /\ ~lastOptions.exporting
       /\ ~endsWith(last.moduleName, <<"/", "package", ".", "json">>)

C9_Witness ==
  /\ last.called
  /\ last.by = "requestCustomExternals"
  /\ isVirtualKind(last.res.filePath, "weak")
  /\ lastRegisters("weak")

\* The documented snippets; nodeEnd is what follows the module id of a Node
\* built-in.
documentedContents(reg, nodeEnd) ==
  LET name == SubSeq(reg.id, 4, Len(reg.id))
  IN  CASE last.by = "requestNodeExternals" ->
             <<"module.exports=$$require_external('node:">> \o name \o nodeEnd
        [] isVirtualKind(reg.id, "native") ->
             <<"module.exports=__native__r('native:">>
               \o (IF startsWith(name, <<"native", ":">>) THEN SubSeq(name, 3, Len(name))
                   ELSE name)
               \o <<"')">>
        [] isVirtualKind(reg.id, "weak") ->
             <<"module.exports=/*">> \o last.moduleName \o <<"*/__r(">>
               \o (IF numericIds THEN name ELSE <<"\"">> \o name \o <<"\"">>)
               \o <<")">>
        [] OTHER -> reg.contents

\* C10 as stated: nothing follows the closing parenthesis of any snippet.
C10_Original ==
  last.called =>
    \A r \in 1..Len(last.regs) :
      last.regs[r].contents = documentedContents(last.regs[r], <<"')">>)

\* C10: the registered source is module.exports=$$require_external('node:<id>');
\* with a closing semicolon for a Node built-in,
\* module.exports=__native__r('native:<name>') for a builtin and
\* module.exports=/*<specifier>*/__r(<opaqueId>) for a weak reference, a
\* numeric id unquoted and a string id JSON-encoded.
C10_ExactContents ==
  last.called =>
    \A r \in 1..Len(last.regs) :
      last.regs[r].contents = documentedContents(last.regs[r], <<"')", ";">>)

\* A call whose Node external strategy registered the source of a Node
\* built-in.
C10_Witness ==
  /\ last.called
  /\ last.by = "requestNodeExternals"
  /\ Len(last.regs) = 1
  /\ last.regs[1].contents = nodeExternalContents(SubSeq(last.regs[1].id, 4, Len(last.regs[1].id)))
\* A resolve call for a Node standard-library specifier.
lastNodeId == isNodeExternal(last.moduleName)

NodeStdlibCall == last.called /\ lastNodeId # NoPath

\* The call returned the \0node:<id> module of the Node external strategy.
C11_NodeResult ==
  /\ last.tag = "return"
  /\ last.by = "requestNodeExternals"
  /\ last.res = SourceFile(<<NUL, "node", ":">> \o lastNodeId)
  /\ last.regs =
       << Registration(<<NUL, "node", ":">> \o lastNodeId,
                       <<"module.exports=$$require_external('node:">> \o lastNodeId
                         \o <<"')", ";">>) >>

\* C11 as stated: in a server environment every call for a Node
\* standard-library specifier returns \0node:<id>, whatever path mapping is
\* configured, and the base resolver is not consulted.
C11_Original ==
  (NodeStdlibCall /\ isServerEnvironment(lastOptions.environment))
    => (C11_NodeResult /\ last.base = <<>>)

\* C11: in a server environment a call for a Node standard-library specifier
\* that the tsconfig path strategy did not resolve first returns \0node:<id>
\* with the content module.exports=$$require_external('node:<id>'); on every
\* platform, whether or not a same-named module is on disk, and the Node
\* external strategy does not consult the base resolver.
C11_ServerNodeExternal ==
  (NodeStdlibCall /\ isServerEnvironment(lastOptions.environment)
     /\ last.by # "requestTsconfigPaths")
    => /\ C11_NodeResult
       /\ lastStrategy("requestNodeExternals").base = <<>>
       /\ \A i \in 1..Len(last.base) : last.base[i] # last.moduleName

\* A server call on a native platform for a built-in that has a same-named
\* module on disk.
C11_Witness ==
  /\ NodeStdlibCall
  /\ lastOptions.environment = "node"
  /\ last.context.platform = "ios"
  /\ last.moduleName \in DOMAIN Disk
  /\ last.res = SourceFile(<<NUL, "node", ":">> \o lastNodeId)

\* C12: in a client environment the Node external strategy returns the
\* resolution of the base resolver when it resolves the specifier, returns
\* {type: empty} on web when it cannot, and registers nothing.
C12_ClientPolyfillFirst ==
  (NodeStdlibCall /\ ~isServerEnvironment(lastOptions.environment)
     /\ last.context.fileSystem = "ok")
    => LET strategy == lastStrategy("requestNodeExternals")
           strict == getStrictResolver(lastContext, last.context.platform, last.moduleName)
       IN  /\ strict.tag = "return" =>
                (strategy.tag = "return" /\ strategy.res = strict.res)
           /\ (strict.tag = "throw" /\ last.context.platform = "web") =>
                (strategy.tag = "return" /\ strategy.res = EmptyResolution)
           /\ strategy.regs = <<>>
           /\ last.by = "requestNodeExternals" =>
                (last.res = strategy.res /\ last.regs = <<>>)

\* A client call on web that the same-named module on disk answered.
C12_Witness ==
  /\ NodeStdlibCall
  /\ ~isServerEnvironment(lastOptions.environment)
  /\ last.context.platform = "web"
  /\ last.by = "requestNodeExternals"
  /\ last.moduleName \in DOMAIN Disk
  /\ last.res = SourceFile(Disk[last.moduleName])

\* A client call on a native platform for a Node standard-library specifier
\* the base resolver cannot resolve.
C13_Case ==
  /\ NodeStdlibCall
  /\ ~isServerEnvironment(lastOptions.environment)
  /\ last.context.platform # "web"
  /\ last.moduleName \notin DOMAIN Disk
  /\ last.context.fileSystem = "ok"

C13_ClaimedByBuiltin ==
  /\ last.moduleName \in BuiltinAllowList
  /\ ~lastOptions.exporting
  /\ ~EXPO_BUNDLE_BUILT_IN
  /\ ~isStylesheet(last.context.originModulePath)

lastConsulted(name) == \E i \in 1..Len(last.trace) : last.trace[i] = name

\* The exact-alias table of web as documented.
WebAliasTable ==
     <<"react-native">> :> <<"react-native-web">>
  @@ <<"react-native", "/", "index">> :> <<"react-native-web">>
  @@ <<"react-native", "/", "Libraries", "/", "Image", "/", "resolveAssetSource">> :>
       <<"expo-asset", "/", "build", "/", "resolveAssetSource">>

C14_Case ==
  /\ last.called
  /\ last.context.platform = "web"
  /\ last.moduleName \in DOMAIN WebAliasTable

\* What the base resolver does with the replacement, under the same context.
C14_Replacement ==
  getStrictResolver(lastContext, last.context.platform, WebAliasTable[last.moduleName])

C15_Rewritten ==
  IF vectorIconsInstalled /\ Head(last.moduleName) = "react-native-vector-icons"
  THEN <<"@expo", "/", "vector-icons">>
         \o (IF Len(last.moduleName) > 1 /\ last.moduleName[2] = "/"
             THEN Tail(last.moduleName) ELSE <<>>)
  ELSE IF isReactServerComponentsEnabled /\ expoRouterRscInstalled
          /\ last.moduleName = <<"expo-router">>
  THEN <<"expo-router", "/", "rsc">>
  ELSE IF isReactServerComponentsEnabled /\ expoRouterRscInstalled
          /\ last.moduleName = <<"expo-router", "/", "entry-classic">>
  THEN <<"expo-router", "/", "rsc", "/", "entry">>
  ELSE NoPath

C15_Case ==
  /\ last.called
  /\ ~(last.context.platform = "web" /\ last.moduleName \in DOMAIN WebAliasTable)

\* C15: without a platform-exact alias the alias strategy applies the first
\* universal alias whose regex matches: it strictly re-resolves the template
\* with $1 replaced by the captured group (the empty string when the group
\* did not take part), and returns null when no alias matches.
C15_FirstUniversalAlias ==
  C15_Case =>
    LET strategy == lastStrategy("requestAlias")
        strict == getStrictResolver(lastContext, last.context.platform, C15_Rewritten)
    IN  IF C15_Rewritten = NoPath
        THEN strategy.tag = "null" /\ strategy.base = <<>>
        ELSE /\ strategy.tag = strict.tag
             /\ strategy.res = strict.res
             /\ strategy.err = strict.err
             /\ strategy.base = <<C15_Rewritten>>
             /\ lastConsulted("requestAlias") =>
                  (last.by = "requestAlias" /\ last.res = strict.res)

\* A call for react-native-vector-icons, whose group did not take part.
C15_Witness ==
  /\ C15_Case
  /\ last.moduleName = <<"react-native-vector-icons">>
  /\ last.by = "requestAlias"
  /\ last.res = SourceFile(Disk[<<"@expo", "/", "vector-icons">>])

\* The last call got past the exact table to the universal aliases.
C16_Case ==
  /\ last.called
  /\ lastConsulted("requestAlias")
  /\ ~hasExactAlias(last.moduleName, last.context.platform)

hasPathMappings(file) == file.present /\ file.hasPaths /\ Len(file.paths) > 0

\* What the tsconfig strategy does on the inputs of the last call with the
\* mapping that was active when the call was made.
lastTsconfigPaths ==
  IF ~last.tsConfigResolve.enabled THEN ReturnNull(<<>>, <<>>)
  ELSE resolveWithTsConfigPaths(last.tsConfigResolve, last.context.originModulePath,
                                last.moduleName, lastContext, last.context.platform)

\* The configuration most recently loaded when the last call was made.
lastActiveFile == IF last.reloaded THEN last.loaded ELSE tsconfig

C17_Case == last.called /\ lastConsulted("requestTsconfigPaths")

C18_ReloadReplaces ==
  /\ loaded.done =>
       tsConfigResolve = (IF hasPathMappings(loaded.file)
                          THEN bindTsConfigPaths(loaded.file) ELSE NoTsConfig)
  /\ (last.called /\ last.reloaded) =>
       /\ last.tsConfigResolve = (IF hasPathMappings(last.loaded)
                                  THEN bindTsConfigPaths(last.loaded) ELSE NoTsConfig)
       /\ (lastConsulted("requestTsconfigPaths") /\ ~hasPathMappings(last.loaded)) =>
            /\ last.by # "requestTsconfigPaths"
            /\ lastTsconfigPaths.tag = "null"
       /\ (lastConsulted("requestTsconfigPaths") /\ lastTsconfigPaths.tag # "null") =>
            /\ last.by = "requestTsconfigPaths"
            /\ last.res = lastTsconfigPaths.res

\* A call for @/utils after a reload loaded a configuration without path
\* mappings over the constructed one that maps @/*.
C18_Witness ==
  /\ last.called
  /\ last.reloaded
  /\ tsconfig = AppTsConfigFile
  /\ ~hasPathMappings(last.loaded)
  /\ last.moduleName = <<"@", "/", "utils">>
  /\ lastConsulted("requestTsconfigPaths")
  /\ last.by # "requestTsconfigPaths"

\* C19: a resolve call uses the one mapping that was active when it was
\* invoked, whatever reloads are in flight, and a reload in flight never
\* keeps a resolve call from running.
C19_OneSnapshot ==
  /\ (last.called /\ lastConsulted("requestTsconfigPaths")) =>
       /\ (last.by = "requestTsconfigPaths") <=> (lastTsconfigPaths.tag # "null")
       /\ last.by = "requestTsconfigPaths" =>
            /\ last.tag = lastTsconfigPaths.tag
            /\ last.res = lastTsconfigPaths.res
            /\ last.err = lastTsconfigPaths.err
            /\ last.base = lastTsconfigPaths.base
  /\ calls < MaxTsCalls => ENABLED ResolveTs

\* A call the active mapping answered while the reload of a configuration
\* without mappings was in flight.
C19_Witness ==
  /\ last.called
  /\ EmptyPathsFile \in last.inFlight
  /\ last.tsConfigResolve = TsConfigPaths
  /\ last.moduleName = <<"@", "/", "utils">>
  /\ last.by = "requestTsconfigPaths"
codegenNativeCommands ==
  <<"react-native", "/", "Libraries", "/", "Utilities", "/", "codegenNativeCommands">>

\* A web call for a specifier naming codegenNativeCommands that the base
\* resolver finds under a dependency directory.
C20_Case ==
  /\ last.called
  /\ last.context.platform = "web"
  /\ includes(last.moduleName, codegenNativeCommands)
  /\ LET strict == getStrictResolver(lastContext, "web", last.moduleName)
     IN  /\ strict.tag = "return"
         /\ strict.res.type = "sourceFile"
         /\ includes(strict.res.filePath, <<"node_modules">>)

relativeToNodeModules(filePath) == SubSeq(filePath, 6, Len(filePath))

\* A web call whose specifier the post-resolution rewriter resolves to a
\* file of the shim table.
C21_Case ==
  /\ last.called
  /\ last.context.platform = "web"
  /\ lastConsulted("requestPostRewrites")
  /\ LET strict == getStrictResolver(lastContext, "web", last.moduleName)
     IN  /\ strict.tag = "return"
         /\ strict.res.type = "sourceFile"
         /\ startsWith(strict.res.filePath, <<"/", "app", "/", "node_modules", "/">>)
         /\ relativeToNodeModules(strict.res.filePath) \in ShimTable

C21_ShimId ==
  <<NUL, "shim", ":">>
    \o relativeToNodeModules(getStrictResolver(lastContext, "web", last.moduleName).res.filePath)

\* C21: on web a resolved dependency file of the shim table is returned as
\* the base resolution with filePath \0shim:<relative path>, the shim's
\* contents being in the registry; and over the resolve calls a shim id that
\* is in the registry is never read and registered again.
C21_ShimRegisteredOnce ==
  /\ [](C21_Case =>
         /\ last.tag = "return"
         /\ last.by = "requestPostRewrites"
         /\ last.res = [getStrictResolver(lastContext, "web", last.moduleName).res
                          EXCEPT !.filePath = C21_ShimId]
         /\ C21_ShimId \in DOMAIN virtualModules
         /\ virtualModules[C21_ShimId]
              = readFileSync(<<"/", "cli", "/", "static", "/", "shims", "/">>
                               \o SubSeq(C21_ShimId, 4, Len(C21_ShimId))))
  /\ [][calls' = calls + 1 =>
          \A r \in 1..Len(last'.regs) :
            isVirtualKind(last'.regs[r].id, "shim") =>
              /\ last'.regs[r].id \notin DOMAIN virtualModules
              /\ \A q \in 1..Len(last'.regs) : last'.regs[q].id = last'.regs[r].id => q = r]_vars

\* A second call for the shimmed file, which found the shim registered.
C21_Witness ==
  /\ C21_Case
  /\ calls = 2
  /\ last.regs = <<>>
  /\ last.res.filePath = C21_ShimId
  /\ C21_ShimId \in DOMAIN virtualModules

\* A call on a native platform whose specifier the post-resolution rewriter
\* resolves to InitializeCore.js of react-native.
C22_Case ==
  /\ last.called
  /\ last.context.platform # "web"
  /\ lastConsulted("requestPostRewrites")
  /\ LET strict == getStrictResolver(lastContext, last.context.platform, last.moduleName)
     IN  /\ strict.tag = "return"
         /\ strict.res.type = "sourceFile"
         /\ endsWith(strict.res.filePath,
                     <<"react-native", "/", "Libraries", "/", "Core", "/", "InitializeCore",
                       ".", "js">>)

\* C22: on a native platform InitializeCore.js resolves to the empty module
\* in the node and react-server environments, with or without canary
\* redirection; in a client environment the base resolution is returned, its
\* filePath replaced only when canary redirection applies to it.
C22_InitializeCoreEmptyOnServer ==
  C22_Case =>
    LET strict == getStrictResolver(lastContext, last.context.platform, last.moduleName)
        inPackages == relativeToNodeModules(strict.res.filePath)
    IN  /\ last.tag = "return"
        /\ last.by = "requestPostRewrites"
        /\ IF last.context.customResolverOptions.environment \in {"node", "react-server"}
           THEN last.res = EmptyResolution
           ELSE IF isReactCanaryEnabled /\ inPackages \in CanaryTable
           THEN last.res = [strict.res EXCEPT !.filePath =
                              <<"/", "cli", "/", "static", "/", "canary", "/">> \o inPackages]
           ELSE last.res = strict.res

\* InitializeCore.js emptied for a react-server bundle with canary
\* redirection on.
C22_Witness ==
  /\ C22_Case
  /\ isReactCanaryEnabled
  /\ last.context.customResolverOptions.environment = "react-server"
  /\ last.res = EmptyResolution

\* InitializeCore.js returned unchanged to a client bundle.
C22_WitnessClient ==
  /\ C22_Case
  /\ last.context.customResolverOptions.environment \notin {"node", "react-server"}
  /\ last.res.type = "sourceFile"
\* C23 as stated: every id the builtin module-id factory returns begins with
\* native:.
C23_Original ==
  (lastId.called /\ lastId.tag = "return") => startsWith(lastId.id, <<"native", ":">>)

\* C23: the id of a module path that is neither missing nor a virtual-module
\* id is native: followed by a non-empty name; a virtual-module id is
\* returned unchanged and a missing module path gives MODULE_NOT_FOUND, both
\* without the prefix.
C23_PrefixedUnlessVirtualOrMissing ==
  (lastId.called /\ lastId.tag = "return") =>
    IF lastId.modulePath = NullPath THEN lastId.id = <<"MODULE_NOT_FOUND">>
    ELSE IF Head(lastId.modulePath) = NUL THEN lastId.id = lastId.modulePath
    ELSE startsWith(lastId.id, <<"native", ":">>) /\ Len(lastId.id) > 2

\* The factory asked for the id of a virtual module.
C23_Witness ==
  /\ lastId.called
  /\ lastId.tag = "return"
  /\ lastId.modulePath = <<NUL, "polyfill", ":", "assets-registry">>
  /\ lastId.id = lastId.modulePath

\* C24: a module that the entry point of its nearest named package.json
\* (react-native, else module, else main, else index) resolves to gets the id
\* native:<name of the package>, whatever else the package.json declares.
C24_EntryPointGivesPackageName ==
  (/\ lastId.called
   /\ lastId.tag = "return"
   /\ lastId.modulePath # NullPath
   /\ Head(lastId.modulePath) # NUL) =>
    LET manifests == PackageJsons(packageJson)
        absPath == IF isAbsolute(lastId.modulePath) THEN lastId.modulePath
                   ELSE join(root, lastId.modulePath)
        pkgRoot == findNearest(manifests, absPath)
    IN  (/\ pkgRoot # NoPath
         /\ resolveFromSilent(mainFieldOf(manifests[pkgRoot]), pkgRoot) = absPath) =>
          lastId.id = <<"native", ":">> \o manifests[pkgRoot].name

\* C29: a polyfill id that getPolyfills registered keeps its content over
\* every later step.
C29_PolyfillsKeepContent ==
  [][\A id \in {externalRequireId, virtualEnvVarId} :
       id \in DOMAIN virtualModules => virtualModules'[id] = virtualModules[id]]_vars
\* The replace kinds the loop of requestCustomExternals knows.
ExternalKinds == {"empty", "node", "weak", "builtin"}

C25_Matches(i) ==
  externalMatch(externalRules[i].match, lastContext, last.moduleName,
                last.context.platform).match

\* The first rule of the table that matches the last call, 0 when none does.
C25_First ==
  LET matching == { i \in DOMAIN externalRules : C25_Matches(i) }
  IN  IF matching = {} THEN 0 ELSE CHOOSE i \in matching : \A j \in matching : i <= j

C25_Case ==
  /\ last.called
  /\ lastConsulted("requestCustomExternals")
  /\ ~endsWith(last.moduleName, <<"/", "package", ".", "json">>)
  /\ ~endsWith(lastContext.originModulePath, <<".", "css">>)
  /\ C25_First # 0
  /\ externalRules[C25_First].replace \notin ExternalKinds

C25_Fails(originModulePath) ==
  /\ last.tag = "throw"
  /\ last.by = "requestCustomExternals"
  /\ last.err.class = "CommandError"
  /\ includes(last.err.about, last.moduleName)
  /\ includes(last.err.about, <<":", " ", last.context.platform, ", originModulePath">>)
  /\ includes(last.err.about, originModulePath)
  /\ last.regs = <<>>
  /\ last.ids = <<>>
  /\ last.res = NoResolution

C26_CallerContextUnchanged == lastMutated.called => lastMutated.after = lastMutated.before

C26_Witness ==
  /\ lastMutated.called
  /\ lastMutated.context.originModulePath # lastMutated.before.originModulePath
  /\ lastMutated.context.sourceExts # lastMutated.before.sourceExts
  /\ lastMutated.context.mainFields # lastMutated.before.mainFields
  /\ lastMutated.context.unstable_conditionNames # lastMutated.before.unstable_conditionNames
  /\ lastMutated.context.preferNativePlatform # lastMutated.before.preferNativePlatform

C27_Case ==
  /\ lastMutated.called
  /\ lastMutated.before.customResolverOptions.environment \in {"node", "react-server"}

\* C27: in a server environment the main fields of the derived context are
\* those of the table for (environment, platform), whatever main fields
\* the caller passed: react-server + web -> module, main; react-server +
\* non-web -> react-native, module, main; node + web -> main, module;
\* node + non-web -> react-native, main, module.
C27_ServerMainFields ==
  C27_Case =>
    LET environment == lastMutated.before.customResolverOptions.environment
        web == lastMutated.platform = "web"
    IN  lastMutated.context.mainFields =
          CASE environment = "react-server" /\ web -> <<"module", "main">>
            [] environment = "react-server" /\ ~web -> <<"react-native", "module", "main">>
            [] environment = "node" /\ web -> <<"main", "module">>
            [] environment = "node" /\ ~web -> <<"react-native", "main", "module">>

C27_Witness ==
  /\ C27_Case
  /\ lastMutated.before.customResolverOptions.environment = "react-server"
  /\ lastMutated.platform # "web"
  /\ lastMutated.before.mainFields = <<"main">>
  /\ lastMutated.context.mainFields = <<"react-native", "module", "main">>

\* The positions of a list whose extension satisfies a test.
C30_Positions(exts, Test(_)) == { i \in 1..Len(exts) : Test(exts[i]) }

C30_IsMjs(ext) == endsInMjs(ext)

C30_IsOtherJs(ext) == ~endsInMjs(ext) /\ endsInJs(ext)

C30_IsOther(ext) == ~endsInMjs(ext)

\* C30: getNodejsExtensions(exts) is a permutation of exts; the extensions
\* ending in mjs keep their order and are contiguous right after the last
\* of the other extensions that matches /jsx?$/ (at the front when there
\* is none); the other extensions keep their order; applying the function
\* to its result changes nothing.
C30_MjsAfterJs ==
  nodejsSourceExtensions.set =>
    LET exts == sourceExts
        out == nodejsSourceExtensions.list
        mjs == C30_Positions(out, C30_IsMjs)
        js == C30_Positions(out, C30_IsOtherJs)
        lastJs == IF js = {} THEN 0 ELSE CHOOSE i \in js : \A j \in js : j <= i
    IN  /\ Len(out) = Len(exts)
        /\ \A ext \in Exts :
             Cardinality({ i \in 1..Len(out) : out[i] = ext })
               = Cardinality({ i \in 1..Len(exts) : exts[i] = ext })
        /\ SelectSeq(out, C30_IsMjs) = SelectSeq(exts, C30_IsMjs)
        /\ SelectSeq(out, C30_IsOther) = SelectSeq(exts, C30_IsOther)
        /\ mjs = (lastJs + 1)..(lastJs + Cardinality(mjs))
        /\ getNodejsExtensions(out) = out

C30_Witness ==
  /\ nodejsSourceExtensions.set
  /\ nodejsSourceExtensions.list # sourceExts
  /\ lastMutated.context.sourceExts = nodejsSourceExtensions.list
  /\ \E i \in 2..(Len(sourceExts) - 1) : endsInMjs(nodejsSourceExtensions.list[i])

\* A resolve call that the weak rule of the externals table answered.
C28_WeakCall(call) ==
  /\ call.called
  /\ call.by = "requestCustomExternals"
  /\ call.tag = "return"
  /\ isVirtualKind(call.res.filePath, "weak")

\* The id of the last call is the one on record for its real path.
C28_IdOnRecord ==
  C28_WeakCall(last) =>
    /\ Len(last.ids) = 1
    /\ IF numericIds
       THEN /\ last.ids[1] \in DOMAIN fileToIdMap
            /\ last.res.filePath =
                 <<NUL, "weak", ":">> \o NumberId(fileToIdMap[last.ids[1]]).text
       ELSE last.res.filePath = <<NUL, "weak", ":">> \o last.ids[1]

\* No step changes the id on record for a real path.
C28_RecordKept ==
  \A realPath \in DOMAIN fileToIdMap :
    /\ realPath \in DOMAIN fileToIdMap'
    /\ fileToIdMap'[realPath] = fileToIdMap[realPath]

\* Two weak calls in a row for the same real path, platform and environment
\* return the same virtual id.
C28_SameAsBefore ==
  ( /\ C28_WeakCall(last) /\ C28_WeakCall(last')
    /\ calls' = calls + 1
    /\ last'.ids = last.ids
    /\ last'.context.platform = last.context.platform
    /\ last'.context.customResolverOptions.environment
         = last.context.customResolverOptions.environment )
    => last'.res = last.res

\* C28: weak-external determinism. The virtual id a weak call returns is
\* \0weak: followed by the opaque id on record for the real path the
\* specifier resolved to, and the id on record for a real path never
\* changes, whatever calls and bundles come in between; so two weak calls
\* for the same real path return the same virtual id.
C28_WeakDeterminism ==
  /\ [](C28_IdOnRecord)
  /\ [][C28_RecordKept /\ C28_SameAsBefore]_vars

C28_Witness ==
  /\ numericIds
  /\ C28_WeakCall(last)
  /\ last.moduleName = <<"react-dom", "/", "index">>
  /\ fileToIdMap[last.ids[1]] < Cardinality(DOMAIN fileToIdMap) - 1
  /\ <<NUL, "weak", ":">> \o NumberId(fileToIdMap[last.ids[1]]).text \in DOMAIN virtualModules

\* The last call of the Context Mutator was for a server environment.
C31_ServerCall(call) ==
  /\ call.called
  /\ isServerEnvironment(call.before.customResolverOptions.environment)

\* A filled cache is never computed again.
C31_ComputedOnce ==
  nodejsSourceExtensions.set => nodejsSourceExtensions' = nodejsSourceExtensions

\* The step that fills the cache is a server call, and the list is the
\* ordering of the sourceExts of that call; a client call leaves the cache.
C31_FilledByFirstServerCall ==
  /\ (~nodejsSourceExtensions.set /\ nodejsSourceExtensions'.set) =>
       /\ calls' = calls + 1
       /\ C31_ServerCall(lastMutated')
       /\ nodejsSourceExtensions'.list = getNodejsExtensions(lastMutated'.before.sourceExts)
  /\ (calls' = calls + 1 /\ C31_ServerCall(lastMutated')) => nodejsSourceExtensions'.set
  /\ (calls' = calls + 1 /\ ~C31_ServerCall(lastMutated')) =>
       nodejsSourceExtensions' = nodejsSourceExtensions

\* A server call receives the cached list, a client call the sourceExts it
\* came in with.
C31_Received ==
  lastMutated.called =>
    IF C31_ServerCall(lastMutated)
    THEN /\ nodejsSourceExtensions.set
         /\ lastMutated.context.sourceExts = nodejsSourceExtensions.list
    ELSE lastMutated.context.sourceExts = lastMutated.before.sourceExts

\* C31: the Node.js extension ordering is computed at most once, by the
\* first server-environment call and from the sourceExts of that call;
\* every later server-environment call receives that list whatever
\* sourceExts it came in with; client-environment calls neither compute it
\* nor receive it.
C31_OrderingComputedOnce ==
  /\ [](C31_Received)
  /\ [][C31_ComputedOnce /\ C31_FilledByFirstServerCall]_vars

C31_Witness ==
  /\ C31_ServerCall(lastMutated)
  /\ calls > 1
  /\ lastMutated.context.sourceExts = nodejsSourceExtensions.list
  /\ lastMutated.context.sourceExts # getNodejsExtensions(lastMutated.before.sourceExts)

\* The calls of LogBox.install among the first n calls on record.
C32_Installs(n) == { i \in 1..n : logBoxCalls[i].op = "install" }

\* The last call of install or uninstall on record, 0 when there is none.
C32_LastSwitch ==
  LET switches == { i \in DOMAIN logBoxCalls : logBoxCalls[i].op \in {"install", "uninstall"} }
  IN  IF switches = {} THEN 0 ELSE CHOOSE i \in switches : \A j \in switches : j <= i

\* console.error as it was before the first install ever.
C32_Original ==
  LET first == CHOOSE i \in C32_Installs(Len(logBoxCalls)) :
                 \A j \in C32_Installs(Len(logBoxCalls)) : i <= j
  IN  logBoxCalls[first].before

\* The function of LogBox is part of what console.error runs.
C32_Wrapped(handlers) == \E i \in DOMAIN handlers : <<handlers[i]>> = logBoxConsoleError

\* What the handlers of a console.error call ran from the function of
\* LogBox on.
C32_Dispatched(handlers) ==
  LET at == CHOOSE i \in DOMAIN handlers : <<handlers[i]>> = logBoxConsoleError
  IN  SubSeq(handlers, at + 1, Len(handlers))

\* C32: over any sequence of LogBox.install(), LogBox.uninstall(), calls of
\* console.error and decorations of console.error by other code: install
\* and uninstall assign console.error only in the first install ever;
\* isInstalled() is true exactly when the last of the install and uninstall
\* calls was an install; and the function LogBox installed hands a call to
\* registerError while installed and to the console.error of before the
\* first install after an uninstall.
C32_InstallOnce ==
  /\ \A i \in DOMAIN logBoxCalls :
       LET call == logBoxCalls[i]
       IN  /\ (call.op \in {"install", "uninstall"} /\ call.after # call.before) =>
                (call.op = "install" /\ C32_Installs(i - 1) = {})
           /\ (call.op = "console.error" /\ C32_Wrapped(call.handlers)) =>
                C32_Dispatched(call.handlers) =
                  IF call.installed THEN registerError ELSE C32_Original
  /\ isInstalled(logBox) <=>
       (C32_LastSwitch # 0 /\ logBoxCalls[C32_LastSwitch].op = "install")
  /\ \A i \in DOMAIN logBoxCalls :
       logBoxCalls[i].op = "console.error" /\ i > 1 =>
         logBoxCalls[i].installed = logBoxCalls[i - 1].installed

C32_Witness ==
  /\ Len(logBoxCalls) = MaxLogBoxCalls
  /\ logBoxCalls[1].op = "decorate"
  /\ logBoxCalls[2].op = "install"
  /\ logBoxCalls[3].op = "uninstall"
  /\ logBoxCalls[4].op = "install"
  /\ logBoxCalls[4].after = logBoxCalls[4].before
  /\ logBoxCalls[5].op = "console.error"
  /\ logBoxCalls[5].handlers = logBoxConsoleError \o registerError

\* A console.error call after an uninstall reaches the console.error of
\* before the first install.
C32_WitnessUninstalled ==
  /\ Len(logBoxCalls) >= 4
  /\ logBoxCalls[1].op = "decorate"
  /\ logBoxCalls[2].op = "install"
  /\ logBoxCalls[3].op = "uninstall"
  /\ logBoxCalls[4].op = "console.error"
  /\ logBoxCalls[4].handlers
       = logBoxConsoleError \o <<"decoration">> \o nativeConsoleError

\* The most base-resolver calls one resolve call makes: no strategy makes
\* more than two, and the fall-through makes one.
C33_MaxBaseCalls == 2 * Len(Strategies) + 1

\* The last call was answered by a strategy that resolves a replacement of
\* the specifier: an alias or a path mapping.
C33_Replaced ==
  /\ last.called
  /\ last.by \in {"requestAlias", "requestTsconfigPaths"}
  /\ last.tag = "return"

\* C33: the base-resolver calls of the strategies never come back into the
\* chain: no resolve call runs out of call stack, every resolve call makes
\* a bounded number of base-resolver calls, and the answer of the alias and
\* path-mapping strategies is what the base resolver returns for the
\* replacement, neither aliased, externalised nor rewritten again.
C33_NoReentry ==
  last.called =>
    /\ ~(last.tag = "throw" /\ last.err.class = "RangeError")
    /\ Len(last.base) <= C33_MaxBaseCalls
    /\ C33_Replaced =>
         LET replacement == last.base[Len(last.base)]
         IN  /\ replacement # last.moduleName
             /\ last.res = resolver([lastContext EXCEPT !.resolveRequest = FALSE],
                                    replacement, last.context.platform).res
             /\ last.regs = <<>>
             /\ last.trace[Len(last.trace)] = last.by

C33_Witness ==
  /\ C33_Replaced
  /\ last.by = "requestAlias"
  /\ lastContext.resolveRequest
  /\ last.base[Len(last.base)] = <<"react-native-web">>
  /\ last.res.type = "sourceFile"

\* What the post-resolution rewriter did in the last call.
C34_Rewriter == lastStrategyBefore("requestPostRewrites")

\* C34: the post-resolution rewriter never returns null: it returns a
\* Resolution or throws. The fallback resolver after it and the
\* fall-through to the base resolver are reached, if at all, only after
\* the rewriter has thrown.
C34_RewriterNeverNull ==
  (last.called /\ lastConsulted("requestPostRewrites")) =>
    /\ C34_Rewriter.tag \in {"return", "throw"}
    /\ C34_Rewriter.tag = "return" => C34_Rewriter.res # NoResolution
    /\ (lastConsulted("requestFallbackModule") \/ last.by = "upstream") =>
         C34_Rewriter.tag = "throw"

C34_Witness ==
  /\ last.called
  /\ last.by = "requestPostRewrites"
  /\ last.tag = "throw"
  /\ isFailedToResolvePathError(last.err)
  /\ last.moduleName \notin FallbackModules

\* C35: once the reloads started by two or more change notifications have
\* all completed, the active mapping is the one of the configuration the
\* last notification was about, the one on disk: a reload that finishes late
\* does not replace the mapping of a newer reload.
C35_LaterReloadWins ==
  (changes >= 2 /\ reloads = {}) =>
    tsConfigResolve = reloadedTsConfigResolve(tsconfigFile)

\* C36: after a reload the tsconfig strategy is active if and only if it
\* would be active had the configuration that reload loaded been supplied at
\* construction, in particular for one with a baseUrl and no paths and for
\* one with an empty paths object.
C36_SameActivationRule ==
  loaded.done =>
    (tsConfigResolve.enabled <=>
       initialTsConfigResolve(isTsconfigPathsEnabled, loaded.file).enabled)

\* The ids the factory has given to real modules named by an absolute path.
C37_RealPaths(platform) ==
  { key[1] : key \in { k \in DOMAIN moduleIds :
                         k[2] = platform /\ k[1] # NullPath /\ isAbsolute(k[1]) } }

\* C37: for one platform the builtin module-id factory gives two distinct
\* absolute module paths two distinct ids.
C37_Injective ==
  \A platform \in {"ios", "web"} :
    \A p, q \in C37_RealPaths(platform) :
      p # q => moduleIds[<<p, platform>>] # moduleIds[<<q, platform>>]

\* The last call was answered by the builtin rule of requestCustomExternals.
C38_Builtin ==
  /\ last.called
  /\ last.tag = "return"
  /\ last.by = "requestCustomExternals"
  /\ last.res.type = "sourceFile"
  /\ startsWith(last.res.filePath, <<NUL, "native", ":">>)

\* The name after \0native: in the returned id.
C38_IdName == SubSeq(last.res.filePath, 4, Len(last.res.filePath))

\* The name after native: in the content registered under that id.
C38_ContentName ==
  LET contents == virtualModules[last.res.filePath]
  IN  SubSeq(contents, 2, Len(contents) - 1)

\* C38: for every specifier the builtin rule answers, with or without a
\* leading native: and in the renamed form, the name after \0native: in the
\* returned virtual id is the name after native: in the content registered
\* under it, so that react and native:react get the same id.
C38_SameName ==
  C38_Builtin =>
    /\ last.res.filePath \in DOMAIN virtualModules
    /\ Head(virtualModules[last.res.filePath]) = "module.exports=__native__r('native:"
    /\ C38_IdName = C38_ContentName

\* C39: a resolve call with platform web never returns a \0native: id,
\* whatever the specifier, the importer and the environment.
C39_NoNativeOnWeb ==
  (/\ last.called
   /\ last.context.platform = "web"
   /\ last.tag = "return"
   /\ last.res.type = "sourceFile") =>
    ~startsWith(last.res.filePath, <<NUL, "native", ":">>)

\* A real file below a dependency directory whose path relative to that
\* directory is in the web shim table.
C40_IsShimFile(filePath) ==
  /\ filePath # <<>>
  /\ Head(filePath) # NUL
  /\ includes(filePath, <<"node_modules">>)
  /\ dropUntilNodeModules(normalizeSlashes(filePath)) \in ShimTable

C40_WebResult ==
  /\ last.called
  /\ last.context.platform = "web"
  /\ last.tag = "return"
  /\ last.res.type = "sourceFile"

\* C40 as stated: whichever strategy produced it, the result of a web call is
\* never a file of the shim table.
C40_Original == C40_WebResult => ~C40_IsShimFile(last.res.filePath)

\* The file the strict resolve of the rewriter found.
C40_Found == Disk[last.base[Len(last.base)]]

\* C40: on web a result the post-resolution rewriter produced is never a
\* file of the shim table: when its strict resolve finds one, the result is
\* the \0shim: id of that file, registered in the registry. A file the
\* tsconfig strategy or the alias strategy resolved is returned as resolved,
\* without the rewrite.
C40_RewriterShims ==
  C40_WebResult =>
    /\ last.by = "requestPostRewrites" => ~C40_IsShimFile(last.res.filePath)
    /\ (/\ last.by = "requestPostRewrites"
        /\ last.base # <<>>
        /\ last.base[Len(last.base)] \in DOMAIN Disk
        /\ C40_IsShimFile(C40_Found)) =>
         /\ last.res.filePath =
              <<NUL, "shim", ":">> \o dropUntilNodeModules(normalizeSlashes(C40_Found))
         /\ last.res.filePath \in DOMAIN virtualModules
    /\ (/\ last.by \in {"requestTsconfigPaths", "requestAlias"}
        /\ last.base # <<>>
        /\ last.base[Len(last.base)] \in DOMAIN Disk) =>
         last.res.filePath = C40_Found

\* A web call for AppContainer that the rewriter answered with the shim.
C40_Witness ==
  /\ C40_WebResult
  /\ last.by = "requestPostRewrites"
  /\ last.moduleName =
       <<"react-native-web", "/", "dist", "/", "exports", "/", "AppRegistry", "/",
         "AppContainer">>
  /\ last.res.filePath =
       <<NUL, "shim", ":", "react-native-web", "/", "dist", "/", "exports", "/",
         "AppRegistry", "/", "AppContainer", ".", "js">>

\* A web call that the tsconfig strategy answered with the file itself.
C40_WitnessUnshimmed ==
  /\ C40_WebResult
  /\ last.by = "requestTsconfigPaths"
  /\ C40_IsShimFile(last.res.filePath)

============================================================================
